---- MODULE Spec2Model ----
(***************************************************************************)
(* GLOD (Global-Local Overlapping community Detection), class              *)
(* GLODAlgorithm of src/glod_app/views.py, as a state machine.             *)
(*                                                                         *)
(* Vertex ids are the integers 1..n with their usual order (the source     *)
(* orders its ids with <, strings lexicographically).  Floating point      *)
(* values are kept in two forms:                                           *)
(*   - the scores the expansion compares (fitness, omega, influence) are   *)
(*     fixed-point integers in units of 1/Scale;                           *)
(*   - the modularities, psi and conductance are exact fractions <<n, d>>; *)
(*   - entropies are fixed-point integers in units of 1/EntScale.          *)
(***************************************************************************)
EXTENDS Integers, Sequences, FiniteSets, TLC

VARIABLES
    graph,            \* self.graph: [V |-> vertices, E |-> edges as 2-element sets,
                      \*              adj |-> the adjacency sets, as networkx keeps them]
    alpha,            \* self.alpha, in tenths (8 is 0.8)
    tau,              \* self.jaccard_threshold as a fraction <<num, den>>
    communities,      \* self.communities: sequence of vertex sets
    pc,               \* position in run / in the caller
    NL,               \* run: vertices not yet used as a centre
    iteration,        \* run: seeding loop counter
    candidate_seeds,  \* run: sequence of [seed, score, center]
    seed_idx,         \* run: index of the next candidate seed to expand
    processed_seeds,  \* run: seeds already expanded (as sets)
    community,        \* expand_seed: the community being grown
    iterations,       \* expand_seed: number of admissions so far
    merge_count,      \* merge_communities: merges performed
    metrics,          \* run's result: [shen, lazar, nicosia], fractions
    scores,           \* caller: per-community [psi, conductance]
    ground_truth,     \* calculate_onmi_metrics: ground-truth cover
    trial,            \* calculate_onmi_metrics: random partitions drawn so far
    random_sum,       \* calculate_onmi_metrics: sum of random_nmis
    nmi,              \* calculate_onmi_metrics: result record
    seed_value,       \* run: the argument given to random.seed
    hash_order,       \* the order in which this process iterates a set of vertices
    float_metrics,    \* run's result as floats: [shen, lazar, nicosia]
    first_run         \* what an earlier run on the same input returned, if any

vars == <<graph, alpha, tau, communities, pc, NL, iteration, candidate_seeds,
          seed_idx, processed_seeds, community, iterations, merge_count,
          metrics, scores, ground_truth, trial, random_sum, nmi,
          seed_value, hash_order, float_metrics, first_run>>

(***************************************************************************)
(* Bounds of the model and the inputs drawn in Init.                       *)
(***************************************************************************)
\* All graphs on the vertices 1..n, n <= MaxNodes, are inputs.
MaxNodes == 4
\* Operations called on a given cover take every graph on 1..n, n <= CoverNodes,
\* and every list of at most MaxCover vertex sets.
CoverNodes == 3
MaxCover == 2
\* calculate_onmi_metrics takes the vertex sets 1..n, n <= NmiNodes, and every
\* pair of covers of at most NmiCover non-empty communities.
NmiNodes == 3
NmiCover == 1
\* Two runs are compared on every graph on 1..n, n <= TwiceNodes.
TwiceNodes == 4

\* Largest number of nodes of a graph with weighted edges.
WeightedNodes == 3

\* merge_communities is called on every list of at most MergeLength subsets
\* of 1..MergeNodes.
MergeNodes == 3

MergeLength == 3

Pairs(S) == {e \in SUBSET S : Cardinality(e) = 2}

Edge(u, v) == {u, v}

\* The scenario graphs of the specification (section 8), a..f = 1..6, x = 5.
\* nx.Graph() after add_node for every vertex and add_edge for every edge.
\* add_edge(u, v, weight=w[{u, v}]) for every edge.
MakeWeightedGraph(nodes, edges, w) ==
    [V |-> nodes, E |-> edges,
     adj |-> [v \in nodes |-> {u \in nodes : Edge(u, v) \in edges /\ u # v}],
     weight |-> w]

\* add_edge(u, v): no weight attribute, every reader takes the default 1.
MakeGraph(nodes, edges) == MakeWeightedGraph(nodes, edges, [e \in edges |-> 1])

Bowtie ==
    MakeGraph(1..5, {Edge(5,1), Edge(5,2), Edge(1,2), Edge(5,3), Edge(5,4), Edge(3,4)})

TwoTriangles ==
    MakeGraph(1..6, {Edge(1,2), Edge(2,3), Edge(3,1), Edge(4,5), Edge(5,6), Edge(6,4)})

K4 == MakeGraph(1..4, Pairs(1..4))

Path6 == MakeGraph(1..6, {Edge(i, i + 1) : i \in 1..5})

\* A 6-clique 1..6, vertex 7 adjacent to 2..6 and to the 7 leaves 8..14:
\* the rough seed of 1 is the clique, and 7 is adjacent to 5 of its 6 members.
ExceptionGraph ==
    MakeGraph(1..14, Pairs(1..6) \cup {Edge(7, v) : v \in (2..6) \cup (8..14)})

\* A triangle 1, 2, 3; the clique 4..13 and vertex 14, all adjacent to 2 and 3
\* and 14 to all of 4..13; 14 has the 15 leaves 15..29.
LateGraph ==
    MakeGraph(1..29, Pairs(1..3) \cup Pairs(4..13)
                         \cup {Edge(y, d) : y \in 2..3, d \in 4..14}
                         \cup {Edge(14, v) : v \in (4..13) \cup (15..29)})

\* A path 3-2-1 whose end 1 has two, or three, more leaves: expanding {3}
\* admits 2 and then finds 1 with gain 0, or with a negative gain.
SmallGainGraph == MakeGraph(1..5, {Edge(1,2), Edge(1,4), Edge(1,5), Edge(2,3)})

NegativeGainGraph ==
    MakeGraph(1..6, {Edge(1,2), Edge(1,4), Edge(1,5), Edge(1,6), Edge(2,3)})

SmallGraphs ==
    UNION {{MakeGraph(1..n, e) : e \in SUBSET Pairs(1..n)} : n \in 0..MaxNodes}

GraphInputs == SmallGraphs \cup {Bowtie, TwoTriangles, K4, Path6}

\* A triangle 1, 2, 3 with the leaves 5 and 6 at 1 and the leaf 4 at 2:
\* expanding {4} admits 2; then 3 has the largest gain and the largest omega,
\* and 1, with gain 0, ties with it on the influence.
OrLogicGraph ==
    MakeGraph(1..6, {Edge(1,2), Edge(1,3), Edge(1,5), Edge(1,6), Edge(2,3), Edge(2,4)})

\* 101 vertices, more than the 100 seeds run records: a triangle 1, 2, 3 and
\* the edge between the last two vertices.
SeedCapGraph ==
    MakeGraph(1..101, {Edge(1,2), Edge(1,3), Edge(2,3), Edge(100,101)})

\* The graphs expand_seed is called on.
ExpandGraphs == GraphInputs \cup {SmallGainGraph, NegativeGainGraph, OrLogicGraph}

AlphaInputs == {6, 8, 10}

TauInputs == {<<1, 10>>, <<33, 100>>, <<34, 100>>, <<1, 2>>, <<3, 5>>, <<1, 1>>}

(***************************************************************************)
(* Arithmetic.                                                             *)
(***************************************************************************)
\* Fixed-point unit of the expansion scores: a score s is kept as s * Scale.
Scale == 10 * 1000 * 1000

Max2(a, b) == IF a >= b THEN a ELSE b

Min2(a, b) == IF a <= b THEN a ELSE b

Abs(a) == IF a < 0 THEN 0 - a ELSE a

RECURSIVE Gcd(_, _)
Gcd(a, b) == IF b = 0 THEN a ELSE Gcd(b, a % b)

\* Fractions <<n, d>>, d > 0, in lowest terms.
Frac(n, d) ==
    LET g == Gcd(Abs(n), Abs(d))
        s == IF d < 0 THEN 0 - 1 ELSE 1
    IN  IF n = 0 THEN <<0, 1>> ELSE <<s * (n \div g), s * (d \div g)>>

FZero == <<0, 1>>

\* Sums go through the least common denominator to keep the numbers small.
Lcm(a, b) == (a \div Gcd(a, b)) * b

FAdd(a, b) ==
    IF b[1] = 0 THEN a
    ELSE IF a[1] = 0 THEN b
    ELSE LET l == Lcm(a[2], b[2])
         IN  Frac(a[1] * (l \div a[2]) + b[1] * (l \div b[2]), l)

FSub(a, b) == FAdd(a, <<0 - b[1], b[2]>>)

FMul(a, b) == Frac(a[1] * b[1], a[2] * b[2])

FDivInt(a, k) == Frac(a[1], a[2] * k)

FGeq(a, b) == a[1] * b[2] >= b[1] * a[2]

\* Sum of the integers f[x], x in S.
RECURSIVE ISum(_, _)
ISum(f, S) ==
    IF S = {} THEN 0
    ELSE LET x == CHOOSE y \in S : TRUE IN f[x] + ISum(f, S \ {x})

\* Sum of the fractions f[x], x in S.
RECURSIVE FSum(_, _)
FSum(f, S) ==
    IF S = {} THEN FZero
    ELSE LET x == CHOOSE y \in S : TRUE IN FAdd(f[x], FSum(f, S \ {x}))

\* The largest element of a non-empty set of integers.
SetMax(S) == CHOOSE x \in S : \A y \in S : y <= x

(***************************************************************************)
(* Graph adapter (networkx queries used by the class).                     *)
(***************************************************************************)
neighbors(v) == graph.adj[v]

degree(v) == Cardinality(neighbors(v))

has_edge(u, v) == v \in graph.adj[u]

number_of_nodes == Cardinality(graph.V)

number_of_edges == Cardinality(graph.E)

\* 2-hop neighbours as omega builds them: the union of N(n) over n in N(v).
two_hop(v) == UNION {neighbors(n) : n \in neighbors(v)}

(***************************************************************************)
(* Similarity kernels.                                                     *)
(***************************************************************************)
common_neighbor_similarity(node1, node2) ==
    Cardinality(neighbors(node1) \cap neighbors(node2))

\* score of one vj in NCi as the fraction part1 + 0.1 * part2.
omega_score(candidate, vj) ==
    LET denom1 == degree(vj) + 1
        n2 == Cardinality(two_hop(vj))
        denom2 == IF n2 > 0 THEN n2 ELSE 1
        num1 == Cardinality(neighbors(candidate) \cap neighbors(vj)) + 1
        num2 == Cardinality(two_hop(candidate) \cap two_hop(vj)) + 1
    IN  <<10 * num1 * denom2 + num2 * denom1, 10 * denom1 * denom2>>

\* (n * (Scale \div 10)) \div d by long division, three digits of the
\* quotient at a time, so that no intermediate value leaves 32 bits.
ScaledQuotient(n, d) ==
    LET r0 == n % d
        r1 == (r0 * 1000) % d
    IN  (n \div d) * (Scale \div 10) + ((r0 * 1000) \div d) * 1000 + (r1 * 1000) \div d

\* The largest score of a vj in NCi, not divided by the degree of the candidate.
omega_not_divided(candidate, comm) ==
    LET NCi == neighbors(candidate) \cap comm
        fp == {LET s == omega_score(candidate, vj)
               IN  10 * ScaledQuotient(s[1], s[2]) : vj \in NCi}
    IN  IF NCi = {} THEN 0
        ELSE Max2(0, SetMax(fp))

\* omega(candidate, community) in units of 1/Scale.
omega(candidate, comm) ==
    LET NCi == neighbors(candidate) \cap comm
        fp == {LET s == omega_score(candidate, vj)
               IN  10 * ScaledQuotient(s[1], s[2] * degree(candidate)) : vj \in NCi}
    IN  IF NCi = {} THEN 0
        ELSE IF degree(candidate) = 0 THEN 0
        ELSE Max2(0, SetMax(fp))

\* Score = Sum(degree) + Count(Nodes) + Count(Internal Edges)
calculate_seed_score(rough_seed) ==
    LET degree_sum == ISum([n \in rough_seed |-> degree(n)], rough_seed)
        node_count == Cardinality(rough_seed)
        edge_count == Cardinality({e \in graph.E : e \subseteq rough_seed})
    IN  degree_sum + node_count + edge_count

\* The neighbour with the fewest common neighbours, smallest id on ties.
best_neighbor_least_common(center_node, available) ==
    CHOOSE x \in available : \A y \in available :
        \/ common_neighbor_similarity(center_node, x) < common_neighbor_similarity(center_node, y)
        \/ /\ common_neighbor_similarity(center_node, y) = common_neighbor_similarity(center_node, x)
           /\ x <= y

\* The neighbour picked by nc_scores.sort(key=(-NC, id)): NC descending, id ascending.
best_neighbor(center_node, available) ==
    CHOOSE x \in available : \A y \in available :
        \/ common_neighbor_similarity(center_node, y) < common_neighbor_similarity(center_node, x)
        \/ /\ common_neighbor_similarity(center_node, y) = common_neighbor_similarity(center_node, x)
           /\ x <= y

\* The while loop from one turn on.  The set of a one-element set binds
\* rough_seed to its value at every turn.
RECURSIVE grow_rough_seed(_, _)
grow_rough_seed(center_node, seed_so_far) ==
    CHOOSE grown \in
        {LET available == neighbors(center_node) \ rough_seed
             b == best_neighbor(center_node, available)
         IN  IF available # {} /\ common_neighbor_similarity(center_node, b) > 0
             THEN grow_rough_seed(center_node, rough_seed \cup {b})
             ELSE rough_seed : rough_seed \in {seed_so_far}} : TRUE

create_rough_seed(center_node) == grow_rough_seed(center_node, {center_node})

\* 1 / k ** alpha in units of 1/Scale, for alpha = 0.6 and alpha = 0.8.
InvPow06 ==
    <<10000000, 6597540, 5172819, 4352753, 3807308, 3412788, 3111295, 2871746,
      2675805, 2511886, 2372271, 2251600, 2146021, 2052689, 1969451, 1894646,
      1826967, 1765373, 1709023, 1657227, 1609416, 1565115, 1523924, 1485502,
      1449559, 1415846, 1384145, 1354270, 1326054, 1299353>>

InvPow08 ==
    <<10000000, 5743492, 4152436, 3298770, 2759459, 2384948, 2108247, 1894646,
      1724273, 1584893, 1468540, 1369793, 1284829, 1210870, 1145848, 1088188,
      1036671, 990335, 948412, 910282, 875436, 843455, 813987, 786740,
      761462, 737940, 715993, 695462, 676210, 658117>>

\* An internal degree that counts every internal edge once.
k_in_counted_once(comm) == Cardinality({e \in graph.E : e \subseteq comm})

\* k_in: every internal edge counted from both ends; k_out: every cut edge once.
k_in_of(comm) == ISum([n \in comm |-> Cardinality(neighbors(n) \cap comm)], comm)

k_out_of(comm) == ISum([n \in comm |-> Cardinality(neighbors(n) \ comm)], comm)

\* k_in / (k_in + k_out) ** alpha in units of 1/Scale.  For alpha = 1 the
\* power is the base itself and the quotient is formed directly.
fitness_function(comm) ==
    LET k_in == k_in_of(comm)
        k_out == k_out_of(comm)
    IN  IF k_in = 0 THEN 0
        ELSE IF alpha = 10 THEN (k_in * Scale) \div (k_in + k_out)
        ELSE IF alpha = 8 THEN k_in * InvPow08[k_in + k_out]
        ELSE k_in * InvPow06[k_in + k_out]

\* F(v, S) = |N(v) & S| / |S| in units of 1/Scale.
influence_function(candidate, seed) ==
    IF Cardinality(seed) = 0 THEN 0
    ELSE 10 * ((Cardinality(neighbors(candidate) \cap seed) * (Scale \div 10))
                 \div Cardinality(seed))

(***************************************************************************)
(* Expansion phase: one iteration of expand_seed's while loop.             *)
(***************************************************************************)
\* min_fitness_gain_threshold = 0.0001
MinFitnessGainThreshold == Scale \div 10000

\* the "exceptional" threshold 0.8 for omega and influence
ExceptionThreshold == 8 * (Scale \div 10)

\* iterations < 10
ExceptionIterations == 10

\* max(3, int(number_of_nodes * 0.5))
max_community_size == Max2(3, number_of_nodes \div 2)

shell_nodes(comm) == (UNION {neighbors(n) : n \in comm}) \ comm

fitness_gain(candidate, comm) ==
    fitness_function(comm \cup {candidate}) - fitness_function(comm)

\* candidate_scores.items(): one record per shell node.
candidate_scores(comm) ==
    {[node |-> c,
      fitness |-> fitness_gain(c, comm),
      omega |-> omega(c, comm),
      influence |-> influence_function(c, comm)] : c \in shell_nodes(comm)}

\* max(candidate_scores.items(), key=...) visits the candidates in ascending
\* id order and keeps the first maximum: the smallest id among the maxima.
best_by_fitness(cs) ==
    CHOOSE x \in cs : \A y \in cs :
        y.fitness < x.fitness \/ (y.fitness = x.fitness /\ x.node <= y.node)

best_by_omega(cs) ==
    CHOOSE x \in cs : \A y \in cs :
        y.omega < x.omega \/ (y.omega = x.omega /\ x.node <= y.node)

best_by_influence(cs) ==
    CHOOSE x \in cs : \A y \in cs :
        y.influence < x.influence \/ (y.influence = x.influence /\ x.node <= y.node)

\* The argmax of each of the three functions.
argmax_nodes(cs) == {best_by_fitness(cs), best_by_omega(cs), best_by_influence(cs)}

\* max(scores['fitness'], scores['omega'], scores['influence'])
max_score_for_candidate(sc) == Max2(sc.fitness, Max2(sc.omega, sc.influence))

\* The argmax node whose largest score is largest, smallest id on ties.
best_candidate(comm) ==
    LET A == argmax_nodes(candidate_scores(comm))
    IN  CHOOSE x \in A : \A y \in A :
            \/ max_score_for_candidate(y) < max_score_for_candidate(x)
            \/ /\ max_score_for_candidate(y) = max_score_for_candidate(x)
               /\ x.node <= y.node

\* The admission rule with no limit on the admissions made so far.
add_node_at_any_iteration(sc, its) ==
    \/ sc.fitness >= MinFitnessGainThreshold
    \/ /\ sc.fitness < 0
       /\ (sc.omega > ExceptionThreshold \/ sc.influence > ExceptionThreshold)

\* add_node after the primary and the secondary criterion, for the scores of
\* the best candidate.
add_node(sc, its) ==
    \/ sc.fitness >= MinFitnessGainThreshold
    \/ /\ sc.fitness < 0
       /\ its < ExceptionIterations
       /\ (sc.omega > ExceptionThreshold \/ sc.influence > ExceptionThreshold)

\* A loop that goes on at any size of the community.
expand_continues_at_any_size(comm, its) ==
    /\ shell_nodes(comm) # {}
    /\ add_node(best_candidate(comm), its)

\* The loop goes round once more: there is a shell, the cap is not reached
\* and the best candidate is admitted.
expand_continues(comm, its) ==
    /\ shell_nodes(comm) # {}
    /\ Cardinality(comm) < max_community_size
    /\ add_node(best_candidate(comm), its)

(***************************************************************************)
(* Merge phase.                                                            *)
(***************************************************************************)
improved_jaccard_sum_of_sizes(comm1, comm2) ==
    IF comm1 \cap comm2 = {} THEN FZero
    ELSE Frac(Cardinality(comm1 \cap comm2), Cardinality(comm1) + Cardinality(comm2))

\* |Ci & Cj| / |Ci | Cj| as a fraction; 0 when they share no vertex.
improved_jaccard_coefficient(comm1, comm2) ==
    IF comm1 \cap comm2 = {} THEN FZero
    ELSE IF Cardinality(comm1 \cup comm2) = 0 THEN FZero
    ELSE Frac(Cardinality(comm1 \cap comm2), Cardinality(comm1 \cup comm2))

merge_test_strict(comm1, comm2) ==
    ~FGeq(tau, improved_jaccard_coefficient(comm1, comm2))

\* The test with a threshold of 0: communities that share no vertex pass it.
merge_test_threshold_zero(comm1, comm2) ==
    FGeq(improved_jaccard_coefficient(comm1, comm2), FZero)

\* improved_jaccard >= self.jaccard_threshold
merge_test(comm1, comm2) == FGeq(improved_jaccard_coefficient(comm1, comm2), tau)

\* The j's the inner loop marks for community i, given the ones skipped so far.
communities_to_merge(comms, i, skip) ==
    {j \in (i + 1)..Len(comms) : j \notin skip /\ merge_test(comms[i], comms[j])}

\* One pass of the while loop from index i on: the new list, whether any
\* pair merged, and the number of merges.
RECURSIVE merge_pass_from(_, _, _, _)
merge_pass_from(comms, i, skip, acc) ==
    IF i > Len(comms) THEN acc
    ELSE IF i \in skip THEN merge_pass_from(comms, i + 1, skip, acc)
    ELSE LET js == communities_to_merge(comms, i, skip)
             merged_community == comms[i] \cup UNION {comms[j] : j \in js}
         IN  merge_pass_from(comms, i + 1, skip \cup js \cup {i},
                 [list |-> Append(acc.list, merged_community),
                  merged |-> acc.merged \/ js # {},
                  count |-> acc.count + Cardinality(js)])

\* A pass that tests every later community against the union accumulated for
\* community i instead of community i itself.
RECURSIVE absorb_accumulating(_, _, _, _, _)
absorb_accumulating(comms, j, skip, current, js) ==
    IF j > Len(comms) THEN [set |-> current, js |-> js]
    ELSE IF j \notin skip /\ merge_test(current, comms[j])
         THEN absorb_accumulating(comms, j + 1, skip, current \cup comms[j], js \cup {j})
         ELSE absorb_accumulating(comms, j + 1, skip, current, js)

RECURSIVE merge_pass_accumulating_from(_, _, _, _)
merge_pass_accumulating_from(comms, i, skip, acc) ==
    IF i > Len(comms) THEN acc
    ELSE IF i \in skip THEN merge_pass_accumulating_from(comms, i + 1, skip, acc)
    ELSE LET r == absorb_accumulating(comms, i + 1, skip, comms[i], {})
         IN  merge_pass_accumulating_from(comms, i + 1, skip \cup r.js \cup {i},
                 [list |-> Append(acc.list, r.set),
                  merged |-> acc.merged \/ r.js # {},
                  count |-> acc.count + Cardinality(r.js)])

merge_pass_accumulating(comms) ==
    merge_pass_accumulating_from(comms, 1, {}, [list |-> <<>>, merged |-> FALSE, count |-> 0])

merge_pass_keeps_absorbed(comms) ==
    LET js(i) == communities_to_merge(comms, i, {})
        any == \E i \in 1..Len(comms) : js(i) # {}
    IN  [list |-> [i \in 1..Len(comms) |-> comms[i] \cup UNION {comms[j] : j \in js(i)}],
         merged |-> any,
         count |-> IF any THEN 1 ELSE 0]

\* A pass that keeps community i as it is and drops what it absorbed.
RECURSIVE merge_pass_dropping_from(_, _, _, _)
merge_pass_dropping_from(comms, i, skip, acc) ==
    IF i > Len(comms) THEN acc
    ELSE IF i \in skip THEN merge_pass_dropping_from(comms, i + 1, skip, acc)
    ELSE LET js == communities_to_merge(comms, i, skip)
         IN  merge_pass_dropping_from(comms, i + 1, skip \cup js \cup {i},
                 [list |-> Append(acc.list, comms[i]),
                  merged |-> acc.merged \/ js # {},
                  count |-> acc.count + Cardinality(js)])

merge_pass_dropping_absorbed(comms) ==
    merge_pass_dropping_from(comms, 1, {}, [list |-> <<>>, merged |-> FALSE, count |-> 0])

merge_pass(comms) ==
    merge_pass_from(comms, 1, {}, [list |-> <<>>, merged |-> FALSE, count |-> 0])

\* merge_communities as a whole: passes until one merges nothing.
RECURSIVE merge_communities(_)
merge_communities(comms) ==
    LET r == merge_pass(comms)
    IN  IF r.merged THEN merge_communities(r.list) ELSE r.list

(***************************************************************************)
(* Cover-quality metrics: exact fractions of the values the code computes. *)
(***************************************************************************)
\* Number of communities containing the node, 1 when there is none.
membership_count(node, comms) ==
    LET count == Cardinality({i \in 1..Len(comms) : node \in comms[i]})
    IN  IF count > 0 THEN count ELSE 1

\* Internal edges of a vertex set.
internal_edges(comm) == Cardinality({e \in graph.E : e \subseteq comm})

\* A common multiple of the membership counts: sums of terms 1 / O_v are
\* taken in units of 1 / membership_unit.
membership_unit(comms) ==
    CHOOSE u \in 1..(2 * 2 * 3 * 5) :
        \A v \in graph.V : u % membership_count(v, comms) = 0

\* A common multiple of the positive degrees, likewise.
degree_unit ==
    CHOOSE d \in 1..(2 * 2 * 3 * 5) :
        \A v \in graph.V : degree(v) > 0 => d % degree(v) = 0

shen_community_off_diagonal(comm, comms) ==
    LET m == number_of_edges
        u == membership_unit(comms)
        term(v, w) ==
            LET a_vw == IF has_edge(v, w) THEN 1 ELSE 0
                o_v == membership_count(v, comms)
                o_w == membership_count(w, comms)
            IN  (u \div o_v) * (u \div o_w) * (2 * m * a_vw - degree(v) * degree(w))
    IN  ISum([v \in comm |-> ISum([w \in comm \ {v} |-> term(v, w)], comm \ {v})], comm)

\* The double loop of calculate_shen_modularity over one community: the sum of
\* (1 / (O_v * O_w)) * (A_vw - k_v * k_w / (2m)), in units of 1 / (2m * u * u).
shen_community(comm, comms) ==
    LET m == number_of_edges
        u == membership_unit(comms)
        term(v, w) ==
            LET a_vw == IF has_edge(v, w) THEN 1 ELSE 0
                o_v == membership_count(v, comms)
                o_w == membership_count(w, comms)
            IN  (u \div o_v) * (u \div o_w) * (2 * m * a_vw - degree(v) * degree(w))
    IN  ISum([v \in comm |-> ISum([w \in comm |-> term(v, w)], comm)], comm)

calculate_shen_modularity(comms) ==
    LET m == number_of_edges
        u == membership_unit(comms)
        idx == 1..Len(comms)
        total_eq == ISum([i \in idx |-> shen_community(comms[i], comms)], idx)
    IN  IF m = 0 THEN FZero
        ELSE Frac(total_eq, (2 * m * u * u) * (2 * m))

\* M^ov_cr of one community of size >= 2.
lazar_community(comm, comms) ==
    LET n_cr == Cardinality(comm)
        max_possible_edges == (n_cr * (n_cr - 1)) \div 2
        density == IF max_possible_edges > 0
                   THEN Frac(internal_edges(comm), max_possible_edges)
                   ELSE FZero
        u == membership_unit(comms)
        d == degree_unit
        \* (k_in - k_out) / (degree * O_i), in units of 1 / (d * u)
        contrib == [i \in comm |->
                      LET k_in == Cardinality(neighbors(i) \cap comm)
                          k_out == degree(i) - k_in
                      IN  IF degree(i) > 0
                          THEN (k_in - k_out) * (d \div degree(i))
                                   * (u \div membership_count(i, comms))
                          ELSE 0]
    IN  FMul(Frac(ISum(contrib, comm), d * u * n_cr), density)

lazar_divisor_summed_only(comms) ==
    Cardinality({i \in 1..Len(comms) : Cardinality(comms[i]) >= 2})

\* The divisor of the final average.
lazar_divisor(comms) == Len(comms)

calculate_lazar_modularity(comms) ==
    LET idx == 1..Len(comms)
        m_cr == [i \in idx |->
                   IF Cardinality(comms[i]) < 2 THEN FZero
                   ELSE lazar_community(comms[i], comms)]
    IN  IF Len(comms) = 0 THEN FZero
        ELSE FDivInt(FSum(m_cr, idx), lazar_divisor(comms))

\* The double loop of calculate_nicosia_modularity over one community: the
\* sum of beta_ij * (aij - null_model), in units of 1 / (2m * u * u).
nicosia_community(comm, comms) ==
    LET m == number_of_edges
        u == membership_unit(comms)
        term(i, j) ==
            LET beta_ij == (u \div membership_count(i, comms)) * (u \div membership_count(j, comms))
                aij == IF has_edge(i, j) THEN 1 ELSE 0
                null_model == degree(i) * degree(j)
            IN  beta_ij * (2 * m * aij - null_model)
    IN  ISum([i \in comm |-> ISum([j \in comm |-> term(i, j)], comm)], comm)

nicosia_normalised_by_m(comms) ==
    LET m == number_of_edges
        u == membership_unit(comms)
        idx == 1..Len(comms)
        q_ov == ISum([i \in idx |-> nicosia_community(comms[i], comms)], idx)
    IN  IF m = 0 THEN FZero
        ELSE Frac(q_ov, (2 * m * u * u) * m)

calculate_nicosia_modularity(comms) ==
    LET m == number_of_edges
        u == membership_unit(comms)
        idx == 1..Len(comms)
        q_ov == ISum([i \in idx |-> nicosia_community(comms[i], comms)], idx)
    IN  IF m = 0 THEN FZero
        ELSE Frac(q_ov, (2 * m * u * u) * (2 * m))

\* graph[node][neighbor].get('weight', 1)
edge_weight(u, v) == graph.weight[Edge(u, v)]

calculate_psi_normalized_node_cut(comm) ==
    LET k_i_in == [n \in comm |-> ISum([x \in neighbors(n) \cap comm |-> edge_weight(n, x)],
                                       neighbors(n) \cap comm)]
        k_i_out == [n \in comm |-> ISum([x \in neighbors(n) \ comm |-> edge_weight(n, x)],
                                        neighbors(n) \ comm)]
        part == [n \in comm |->
                   IF k_i_in[n] + k_i_out[n] > 0
                   THEN Frac(k_i_in[n] * k_i_out[n], k_i_in[n] + k_i_out[n])
                   ELSE FZero]
        total_k_in_community == ISum(k_i_in, comm)
    IN  IF comm = {} THEN FZero
        ELSE IF total_k_in_community = 0 THEN FZero
        ELSE FDivInt(FSum(part, comm), total_k_in_community)

conductance_cut_over_internal(comm) ==
    LET inside == {e \in graph.E : e \subseteq comm}
        k_in == ISum([e \in inside |-> graph.weight[e]], inside)
        k_out == ISum([n \in comm |-> ISum([x \in neighbors(n) \ comm |-> edge_weight(n, x)],
                                           neighbors(n) \ comm)], comm)
    IN  IF comm = {} THEN FZero
        ELSE IF k_in = 0 THEN FZero
        ELSE Frac(k_out, k_in)

conductance_of_internal_edges(comm) ==
    LET inside == {e \in graph.E : e \subseteq comm}
        k_in == Cardinality(inside)
        k_out == ISum([n \in comm |-> Cardinality(neighbors(n) \ comm)], comm)
    IN  IF comm = {} THEN FZero
        ELSE IF k_in + k_out = 0 THEN FZero
        ELSE Frac(k_in, k_in + k_out)

calculate_conductance(comm) ==
    LET inside == {e \in graph.E : e \subseteq comm}
        k_in == ISum([e \in inside |-> graph.weight[e]], inside)
        k_out == ISum([n \in comm |-> ISum([x \in neighbors(n) \ comm |-> edge_weight(n, x)],
                                           neighbors(n) \ comm)], comm)
    IN  IF comm = {} THEN FZero
        ELSE IF k_in + k_out = 0 THEN FZero
        ELSE Frac(k_out, k_in + k_out)

(***************************************************************************)
(* Python floats: IEEE 754 binary64 with round-to-nearest-even.  A natural *)
(* number of any size is a sequence of limbs, least significant first,     *)
(* without leading zero limbs; a float is sign * mantissa * 2^exponent     *)
(* with a mantissa of exactly MantissaBits bits, or zero.                  *)
(***************************************************************************)
MantissaBits == 53

LimbBits == 14

LimbBase == 2 ^ LimbBits

Limb(A, i) == IF i <= Len(A) THEN A[i] ELSE 0

RECURSIVE BigTrim(_)
BigTrim(A) ==
    IF A = <<>> THEN <<>>
    ELSE IF A[Len(A)] # 0 THEN A
    ELSE BigTrim(SubSeq(A, 1, Len(A) - 1))

RECURSIVE BigFromInt(_)
BigFromInt(n) ==
    IF n = 0 THEN <<>> ELSE <<n % LimbBase>> \o BigFromInt(n \div LimbBase)

\* Number of bits of a limb.
LimbLength(x) == CHOOSE k \in 0..LimbBits : x < 2 ^ k /\ (k > 0 => x >= 2 ^ (k - 1))

BigLength(A) ==
    IF A = <<>> THEN 0 ELSE (Len(A) - 1) * LimbBits + LimbLength(A[Len(A)])

RECURSIVE BigAddFrom(_, _, _, _)
BigAddFrom(A, B, i, carry) ==
    IF i > Len(A) /\ i > Len(B)
    THEN IF carry = 0 THEN <<>> ELSE <<carry>>
    ELSE LET s == Limb(A, i) + Limb(B, i) + carry
         IN  <<s % LimbBase>> \o BigAddFrom(A, B, i + 1, s \div LimbBase)

BigAdd(A, B) == BigAddFrom(A, B, 1, 0)

\* A - B for A >= B.
RECURSIVE BigSubFrom(_, _, _, _)
BigSubFrom(A, B, i, borrow) ==
    IF i > Len(A) THEN <<>>
    ELSE LET d == A[i] - Limb(B, i) - borrow
         IN  IF d < 0
             THEN <<d + LimbBase>> \o BigSubFrom(A, B, i + 1, 1)
             ELSE <<d>> \o BigSubFrom(A, B, i + 1, 0)

BigSub(A, B) == BigTrim(BigSubFrom(A, B, 1, 0))

\* A < B
BigLess(A, B) ==
    \/ Len(A) < Len(B)
    \/ /\ Len(A) = Len(B)
       /\ \E i \in 1..Len(A) :
              /\ A[i] < B[i]
              /\ \A j \in (i + 1)..Len(A) : A[j] = B[j]

\* A * k for 0 <= k < LimbBase.
RECURSIVE BigMulSmallFrom(_, _, _, _)
BigMulSmallFrom(A, k, i, carry) ==
    IF i > Len(A)
    THEN IF carry = 0 THEN <<>> ELSE <<carry>>
    ELSE LET p == A[i] * k + carry
         IN  <<p % LimbBase>> \o BigMulSmallFrom(A, k, i + 1, p \div LimbBase)

BigMulSmall(A, k) == IF k = 0 THEN <<>> ELSE BigMulSmallFrom(A, k, 1, 0)

BigShiftLimbs(A, n) == IF A = <<>> THEN <<>> ELSE [i \in 1..n |-> 0] \o A

RECURSIVE BigMulFrom(_, _, _)
BigMulFrom(A, B, i) ==
    IF i > Len(B) THEN <<>>
    ELSE BigAdd(BigShiftLimbs(BigMulSmall(A, B[i]), i - 1), BigMulFrom(A, B, i + 1))

BigMul(A, B) == BigMulFrom(A, B, 1)

\* A * 2^bits
BigShiftLeft(A, bits) ==
    BigShiftLimbs(BigMulSmall(A, 2 ^ (bits % LimbBits)), bits \div LimbBits)

\* The remainder of the limbs i..Len(A) of A by d, 0 < d <= LimbBase.
RECURSIVE BigRemainderFrom(_, _, _)
BigRemainderFrom(A, d, i) ==
    IF i > Len(A) THEN 0
    ELSE (BigRemainderFrom(A, d, i + 1) * LimbBase + A[i]) % d

\* Quotient and remainder of A by d, 0 < d <= LimbBase: long division from
\* the most significant limb down.
BigDivSmall(A, d) ==
    [q |-> BigTrim([i \in 1..Len(A) |->
                       (BigRemainderFrom(A, d, i + 1) * LimbBase + A[i]) \div d]),
     r |-> BigRemainderFrom(A, d, 1)]

\* floor(A / 2^bits)
BigShiftRight(A, bits) ==
    LET whole == bits \div LimbBits
    IN  IF whole >= Len(A) THEN <<>>
        ELSE BigDivSmall(SubSeq(A, whole + 1, Len(A)), 2 ^ (bits % LimbBits)).q

\* Bit i of A, bit 0 the least significant.
BigBit(A, i) == (Limb(A, (i \div LimbBits) + 1) \div 2 ^ (i % LimbBits)) % 2

\* Some bit of A below bit i is set.
BigLowBits(A, i) ==
    \/ \E j \in 1..Min2(i \div LimbBits, Len(A)) : A[j] # 0
    \/ Limb(A, (i \div LimbBits) + 1) % 2 ^ (i % LimbBits) # 0

FloatZero == [s |-> 1, m |-> <<>>, e |-> 0]

\* The float nearest to s * (M + t) * 2^e, where 0 <= t < 1 and t > 0 iff
\* sticky; ties go to the even mantissa.  With sticky, M has more than
\* MantissaBits + 1 bits.
FloatRound(s, M, e, sticky) ==
    LET len == BigLength(M)
        drop == len - MantissaBits
    IN  IF M = <<>> THEN FloatZero
        ELSE IF drop <= 0
        THEN [s |-> s, m |-> BigShiftLeft(M, 0 - drop), e |-> e + drop]
        ELSE LET q == BigShiftRight(M, drop)
                 guard == BigBit(M, drop - 1)
                 rest == BigLowBits(M, drop - 1) \/ sticky
                 up == guard = 1 /\ (rest \/ BigBit(q, 0) = 1)
                 r == IF up THEN BigAdd(q, <<1>>) ELSE q
             IN  IF BigLength(r) > MantissaBits
                 THEN [s |-> s, m |-> BigShiftRight(r, 1), e |-> e + drop + 1]
                 ELSE [s |-> s, m |-> r, e |-> e + drop]

\* n / d for integers n and d, 0 < d <= LimbBase.
FloatOfRatio(n, d) ==
    LET wide == BigShiftLeft(BigFromInt(Abs(n)), 5 * LimbBits)
        res == BigDivSmall(wide, d)
    IN  FloatRound(IF n < 0 THEN 0 - 1 ELSE 1, res.q, 0 - 5 * LimbBits, res.r # 0)

FloatOfInt(n) == FloatOfRatio(n, 1)

\* x / d for a float x and an integer d, 0 < d <= LimbBase.
FloatDivInt(x, d) ==
    LET res == BigDivSmall(BigShiftLimbs(x.m, 2), d)
    IN  IF x.m = <<>> THEN FloatZero
        ELSE FloatRound(x.s, res.q, x.e - 2 * LimbBits, res.r # 0)

FloatMul(x, y) ==
    IF x.m = <<>> \/ y.m = <<>> THEN FloatZero
    ELSE FloatRound(x.s * y.s, BigMul(x.m, y.m), x.e + y.e, FALSE)

FloatNeg(x) == IF x.m = <<>> THEN x ELSE [x EXCEPT !.s = 0 - x.s]

\* |x| < |y| for floats in normal form.
FloatMagnitudeLess(x, y) ==
    IF x.m = <<>> THEN y.m # <<>>
    ELSE IF y.m = <<>> THEN FALSE
    ELSE x.e < y.e \/ (x.e = y.e /\ BigLess(x.m, y.m))

\* big + small for |big| >= |small| > 0: exact when the exponents are less
\* than 2 * MantissaBits apart, and big itself beyond that.
FloatAddOrdered(big, small) ==
    LET shift == big.e - small.e
        wide == BigShiftLeft(big.m, shift)
    IN  IF shift >= 2 * MantissaBits THEN big
        ELSE IF big.s = small.s
        THEN FloatRound(big.s, BigAdd(wide, small.m), small.e, FALSE)
        ELSE FloatRound(big.s, BigSub(wide, small.m), small.e, FALSE)

FloatAdd(x, y) ==
    IF y.m = <<>> THEN x
    ELSE IF x.m = <<>> THEN y
    ELSE IF FloatMagnitudeLess(x, y) THEN FloatAddOrdered(y, x)
    ELSE FloatAddOrdered(x, y)

FloatSub(x, y) == FloatAdd(x, FloatNeg(y))

(***************************************************************************)
(* The three modularities as the floats the code accumulates.  order is    *)
(* the order in which the sets of this process iterate: a sequence holding *)
(* every vertex once.                                                      *)
(***************************************************************************)
\* list(community): the elements in iteration order.
list_of(comm, order) == SelectSeq(order, LAMBDA v : v \in comm)

\* total += term, for the terms in sequence.
RECURSIVE FloatAccumulate(_, _, _)
FloatAccumulate(terms, k, total) ==
    IF k > Len(terms) THEN total
    ELSE LET next == FloatAdd(total, terms[k])
         IN  IF next.m = <<>>
             THEN FloatAccumulate(terms, k + 1, FloatZero)
             ELSE FloatAccumulate(terms, k + 1, next)

\* The pairs (v, w) of the two nested loops over the communities' lists, in
\* the order in which the loops visit them.
RECURSIVE loop_pairs(_, _, _)
loop_pairs(comms, order, c) ==
    IF c > Len(comms) THEN <<>>
    ELSE LET nodes_in_comm == list_of(comms[c], order)
             n == Len(nodes_in_comm)
         IN  [k \in 1..(n * n) |->
                 <<nodes_in_comm[((k - 1) \div n) + 1], nodes_in_comm[((k - 1) % n) + 1]>>]
             \o loop_pairs(comms, order, c + 1)

shen_float(comms, order) ==
    LET m == number_of_edges
        pairs == loop_pairs(comms, order, 1)
        term(v, w) ==
            LET a_vw == IF has_edge(v, w) THEN 1 ELSE 0
                expected_edges == FloatOfRatio(degree(v) * degree(w), 2 * m)
                actual_minus_expected == FloatSub(FloatOfInt(a_vw), expected_edges)
                o == membership_count(v, comms) * membership_count(w, comms)
            IN  FloatMul(FloatOfRatio(1, o), actual_minus_expected)
        total_eq == FloatAccumulate([k \in 1..Len(pairs) |-> term(pairs[k][1], pairs[k][2])],
                                    1, FloatZero)
    IN  IF m = 0 THEN FloatZero ELSE FloatDivInt(total_eq, 2 * m)

nicosia_float(comms, order) ==
    LET m == number_of_edges
        pairs == loop_pairs(comms, order, 1)
        term(i, j) ==
            LET beta_ij == FloatMul(FloatOfRatio(1, membership_count(i, comms)),
                                    FloatOfRatio(1, membership_count(j, comms)))
                aij == IF has_edge(i, j) THEN 1 ELSE 0
                null_model == FloatOfRatio(degree(i) * degree(j), 2 * m)
            IN  FloatMul(beta_ij, FloatSub(FloatOfInt(aij), null_model))
        q_ov == FloatAccumulate([k \in 1..Len(pairs) |-> term(pairs[k][1], pairs[k][2])],
                                1, FloatZero)
    IN  IF m = 0 THEN FloatZero ELSE FloatDivInt(q_ov, 2 * m)

\* M^ov_cr of one community of size >= 2.
lazar_community_float(comm, comms, order) ==
    LET nodes == list_of(comm, order)
        n_cr == Len(nodes)
        max_possible_edges == (n_cr * (n_cr - 1)) \div 2
        density == FloatOfRatio(internal_edges(comm), max_possible_edges)
        with_degree == SelectSeq(nodes, LAMBDA i : degree(i) > 0)
        contribution(i) ==
            LET k_in == Cardinality(neighbors(i) \cap comm)
                k_out == degree(i) - k_in
            IN  FloatOfRatio(k_in - k_out, degree(i) * membership_count(i, comms))
        node_contributions ==
            FloatAccumulate([k \in 1..Len(with_degree) |-> contribution(with_degree[k])],
                            1, FloatZero)
    IN  FloatMul(FloatDivInt(node_contributions, n_cr), density)

lazar_float(comms, order) ==
    LET K == Len(comms)
        summed == SelectSeq(comms, LAMBDA c : Cardinality(c) >= 2)
        total_lazar ==
            FloatAccumulate([k \in 1..Len(summed) |->
                                 lazar_community_float(summed[k], comms, order)],
                            1, FloatZero)
    IN  IF K = 0 THEN FloatZero ELSE FloatDivInt(total_lazar, K)

(***************************************************************************)
(* run: seeding, expansion, merge, metrics.                                *)
(***************************************************************************)
\* max_iterations = 1000
MaxIterations == 1000

\* len(candidate_seeds) >= 100
MaxCandidateSeeds == 100

\* "Simpan komunitas jika valid (minimal 3 node)"
MinCommunitySize == 3

is_valid_community_unfiltered(comm) == Cardinality(comm) >= 0

is_valid_community_off_by_one(comm) == Cardinality(comm) >= MinCommunitySize - 1

\* len(community) >= 3
is_valid_community(comm) == Cardinality(comm) >= MinCommunitySize

\* A centre of maximal degree with the largest id on ties.
best_center_largest_id(nl) ==
    CHOOSE c \in nl : \A d \in nl :
        degree(d) < degree(c) \/ (degree(d) = degree(c) /\ d <= c)

\* min(NL, key=(-degree, id)): maximal degree, smallest id on ties.
best_center(nl) ==
    CHOOSE c \in nl : \A d \in nl :
        degree(d) < degree(c) \/ (degree(d) = degree(c) /\ c <= d)

\* A descending sort that reverses the order of the seeds of equal score.
sort_seeds_ties_reversed(seeds) ==
    LET position(i) ==
            1 + Cardinality({j \in 1..Len(seeds) :
                                \/ seeds[j].score > seeds[i].score
                                \/ seeds[j].score = seeds[i].score /\ j > i})
    IN  [k \in 1..Len(seeds) |-> seeds[CHOOSE i \in 1..Len(seeds) : position(i) = k]]

\* candidate_seeds.sort(key=score, reverse=True): a stable sort; the seed at
\* index i goes behind the seeds of larger score and the earlier seeds of
\* equal score.
sort_seeds(seeds) ==
    LET position(i) ==
            1 + Cardinality({j \in 1..Len(seeds) :
                                \/ seeds[j].score > seeds[i].score
                                \/ seeds[j].score = seeds[i].score /\ j < i})
    IN  [k \in 1..Len(seeds) |-> seeds[CHOOSE i \in 1..Len(seeds) : position(i) = k]]

NoMetrics == [shen |-> FZero, lazar |-> FZero, nicosia |-> FZero]

NoNmi == [nmi_lfk |-> 0, nmi_max |-> 0, rnmi |-> 0]

NoFloatMetrics == [shen |-> FloatZero, lazar |-> FloatZero, nicosia |-> FloatZero]

\* def run(self, seed_value: int = 42); the caller passes 42 as well.
DefaultSeed == 42

\* The state of a fresh object with no call in progress.
Idle ==
    /\ NL = {}
    /\ iteration = 0
    /\ candidate_seeds = <<>>
    /\ seed_idx = 0
    /\ processed_seeds = {}
    /\ community = {}
    /\ iterations = 0
    /\ merge_count = 0
    /\ metrics = NoMetrics
    /\ scores = <<>>
    /\ ground_truth = <<>>
    /\ trial = 0
    /\ random_sum = 0
    /\ nmi = NoNmi
    /\ seed_value = DefaultSeed
    /\ hash_order = <<>>
    /\ float_metrics = NoFloatMetrics
    /\ first_run = <<>>

\* GLODAlgorithm(G, alpha, jaccard_threshold), run not yet called.
Init ==
    /\ graph \in GraphInputs
    /\ alpha \in AlphaInputs
    /\ tau \in TauInputs
    /\ communities = <<>>
    /\ pc = "new"
    /\ Idle

nmi_vars == <<ground_truth, trial, random_sum, nmi>>

float_vars == <<seed_value, hash_order, float_metrics, first_run>>

\* run, up to the head of the seeding loop.
RunStart ==
    /\ pc = "new"
    /\ NL' = graph.V
    /\ candidate_seeds' = <<>>
    /\ iteration' = 0
    /\ pc' = "seeding"
    /\ UNCHANGED <<graph, alpha, tau, communities, seed_idx, processed_seeds, community,
                   iterations, merge_count, metrics, scores, nmi_vars, float_vars>>

\* One iteration of the seeding loop; on the break at 100 seeds the sort follows.
SeedStep ==
    /\ pc = "seeding"
    /\ NL # {}
    /\ iteration < MaxIterations
    /\ LET c == best_center(NL)
           rough_seed == create_rough_seed(c)
           recorded == Append(candidate_seeds,
                              [seed |-> rough_seed,
                               score |-> calculate_seed_score(rough_seed),
                               center |-> c])
       IN  /\ iteration' = iteration + 1
           /\ NL' = NL \ {c}
           /\ IF Len(recorded) >= MaxCandidateSeeds
              THEN /\ candidate_seeds' = sort_seeds(recorded)
                   /\ seed_idx' = 1
                   /\ pc' = "expansion"
              ELSE /\ candidate_seeds' = recorded
                   /\ seed_idx' = seed_idx
                   /\ pc' = "seeding"
    /\ UNCHANGED <<graph, alpha, tau, communities, processed_seeds, community,
                   iterations, merge_count, metrics, scores, nmi_vars, float_vars>>

\* The seeding loop ends on its condition; the seeds are sorted by score.
SeedSort ==
    /\ pc = "seeding"
    /\ ~(NL # {} /\ iteration < MaxIterations)
    /\ candidate_seeds' = sort_seeds(candidate_seeds)
    /\ seed_idx' = 1
    /\ processed_seeds' = {}
    /\ pc' = "expansion"
    /\ UNCHANGED <<graph, alpha, tau, communities, NL, iteration, community,
                   iterations, merge_count, metrics, scores, nmi_vars, float_vars>>

\* for-loop of the expansion phase: a seed seen before is skipped.
SkipDuplicate ==
    /\ pc = "expansion"
    /\ seed_idx <= Len(candidate_seeds)
    /\ candidate_seeds[seed_idx].seed \in processed_seeds
    /\ seed_idx' = seed_idx + 1
    /\ UNCHANGED <<graph, alpha, tau, communities, pc, NL, iteration, candidate_seeds,
                   processed_seeds, community, iterations, merge_count, metrics,
                   scores, nmi_vars, float_vars>>

\* for-loop of the expansion phase: expand_seed is entered with a new seed.
ExpandStart ==
    /\ pc = "expansion"
    /\ seed_idx <= Len(candidate_seeds)
    /\ candidate_seeds[seed_idx].seed \notin processed_seeds
    /\ processed_seeds' = processed_seeds \cup {candidate_seeds[seed_idx].seed}
    /\ community' = candidate_seeds[seed_idx].seed
    /\ iterations' = 0
    /\ pc' = "expand"
    /\ UNCHANGED <<graph, alpha, tau, communities, NL, iteration, candidate_seeds,
                   seed_idx, merge_count, metrics, scores, nmi_vars, float_vars>>

\* expand_seed: an iteration that admits the best candidate.
ExpandAdmit ==
    /\ pc = "expand"
    /\ expand_continues(community, iterations)
    /\ community' = community \cup {best_candidate(community).node}
    /\ iterations' = iterations + 1
    /\ UNCHANGED <<graph, alpha, tau, communities, pc, NL, iteration, candidate_seeds,
                   seed_idx, processed_seeds, merge_count, metrics, scores, nmi_vars, float_vars>>

\* expand_seed returns; run saves the community when it has at least 3 nodes.
ExpandReturn ==
    /\ pc = "expand"
    /\ ~expand_continues(community, iterations)
    /\ communities' = IF is_valid_community(community)
                      THEN Append(communities, community)
                      ELSE communities
    /\ seed_idx' = seed_idx + 1
    /\ pc' = "expansion"
    /\ UNCHANGED <<graph, alpha, tau, NL, iteration, candidate_seeds, processed_seeds,
                   community, iterations, merge_count, metrics, scores, nmi_vars, float_vars>>

\* All seeds are processed; run calls merge_communities.
ExpansionDone ==
    /\ pc = "expansion"
    /\ seed_idx > Len(candidate_seeds)
    /\ merge_count' = 0
    /\ pc' = "merge"
    /\ UNCHANGED <<graph, alpha, tau, communities, NL, iteration, candidate_seeds,
                   seed_idx, processed_seeds, community, iterations, metrics, scores,
                   nmi_vars, float_vars>>

\* One pass of merge_communities' while loop; the list is replaced at its end.
MergePass ==
    /\ pc = "merge"
    /\ LET r == merge_pass(communities)
       IN  /\ communities' = r.list
           /\ merge_count' = merge_count + r.count
           /\ pc' = IF r.merged THEN "merge" ELSE "metrics"
    /\ UNCHANGED <<graph, alpha, tau, NL, iteration, candidate_seeds, seed_idx,
                   processed_seeds, community, iterations, metrics, scores, nmi_vars, float_vars>>

\* The three modularities; run returns.
Metrics ==
    /\ pc \in {"metrics", "call_metrics"}
    /\ metrics' = [shen |-> calculate_shen_modularity(communities),
                   lazar |-> calculate_lazar_modularity(communities),
                   nicosia |-> calculate_nicosia_modularity(communities)]
    /\ pc' = "returned"
    /\ UNCHANGED <<graph, alpha, tau, communities, NL, iteration, candidate_seeds,
                   seed_idx, processed_seeds, community, iterations, merge_count,
                   scores, nmi_vars, float_vars>>

\* The caller computes psi and conductance of every returned community.
Scores ==
    /\ pc = "returned"
    /\ scores' = [i \in 1..Len(communities) |->
                    [psi |-> calculate_psi_normalized_node_cut(communities[i]),
                     conductance |-> calculate_conductance(communities[i])]]
    /\ pc' = "done"
    /\ UNCHANGED <<graph, alpha, tau, communities, NL, iteration, candidate_seeds,
                   seed_idx, processed_seeds, community, iterations, merge_count,
                   metrics, nmi_vars, float_vars>>

Next ==
    \/ RunStart
    \/ SeedStep
    \/ SeedSort
    \/ SkipDuplicate
    \/ ExpandStart
    \/ ExpandAdmit
    \/ ExpandReturn
    \/ ExpansionDone
    \/ MergePass
    \/ Metrics
    \/ Scores

Spec == Init /\ [][Next]_vars

(***************************************************************************)
(* merge_communities and the metrics called on a given cover.              *)
(***************************************************************************)
\* All lists of at most k subsets of S.
Covers(S, k) == UNION {[1..len -> SUBSET S] : len \in 0..k}

CoverGraphs ==
    UNION {{MakeGraph(1..n, e) : e \in SUBSET Pairs(1..n)} : n \in 0..CoverNodes}

\* merge_communities reads no edge: the graphs without edges stand for all.
EdgelessGraphs == {MakeGraph(1..n, {}) : n \in 0..CoverNodes}

\* Scenario S6 of the specification: the communities {1,2,3,4} and {3,4,5,6}.
S6Graph == MakeGraph(1..6, {})

S6Cover == <<{1, 2, 3, 4}, {3, 4, 5, 6}>>

\* Graphs whose edges carry a weight attribute.
WeightInputs == {1, 2, 5}

WeightedGraphs ==
    UNION {UNION {{MakeWeightedGraph(1..n, e, w) : w \in [e -> WeightInputs]} :
                      e \in SUBSET Pairs(1..n)} : n \in 0..WeightedNodes}

\* The default jaccard_threshold, 0.33.
DefaultTau == <<33, 100>>

\* An object whose communities list was set by the caller, with either
\* merge_communities or the metrics called next (the metrics read no threshold).
InitCover ==
    /\ alpha = 8
    /\ Idle
    /\ \/ /\ pc = "merge"
          /\ tau \in TauInputs
          /\ \/ /\ graph \in EdgelessGraphs
                /\ communities \in Covers(graph.V, MaxCover)
             \/ /\ graph = S6Graph
                /\ communities = S6Cover
       \/ /\ pc = "call_metrics"
          /\ tau = DefaultTau
          /\ \/ /\ graph \in CoverGraphs
                /\ communities \in Covers(graph.V, MaxCover)
             \/ /\ graph \in WeightedGraphs
                /\ communities \in Covers(graph.V, 1)

NextCover ==
    \/ MergePass
    \/ Metrics
    \/ Scores

SpecCover == InitCover /\ [][NextCover]_vars

(***************************************************************************)
(* Overlapping NMI suite.  Entropies are integers in units of 1/EntScale,  *)
(* the three results integers in units of 1/NmiScale.                      *)
(***************************************************************************)
EntScale == 10 * 1000

NmiScale == 1000

\* math.log2(k) * EntScale for k = 1..8
Log2Table == <<0, 10000, 15850, 20000, 23219, 25850, 28074, 30000>>

\* h(w, n) = -(w/n log2(w/n) + (n-w)/n log2((n-w)/n))
\*         = log2(n) - (w log2(w) + (n-w) log2(n-w)) / n
h_binary(w, n) ==
    IF w = 0 \/ w = n THEN 0
    ELSE (n * Log2Table[n] - w * Log2Table[w] - (n - w) * Log2Table[n - w]) \div n

get_entropy_single(comm, n) ==
    h_binary(Cardinality(comm), n) + h_binary(n - Cardinality(comm), n)

\* H*(X_i|Y_j) from the 2x2 contingency table.
h_star(xi, yj, n) ==
    LET d == Cardinality(xi \cap yj)
        c == Cardinality(xi) - d
        b == Cardinality(yj) - d
        a == n - (b + d + c)
        term1 == IF a + b > 0 THEN h_binary(a, a + b) ELSE 0
        term2 == IF c + d > 0 THEN h_binary(c, c + d) ELSE 0
        term3 == h_binary(a + c, n)
        term4 == h_binary(b + d, n)
    IN  term1 + term2 - term3 - term4

\* The smallest element of a non-empty set of integers.
SetMin(S) == CHOOSE x \in S : \A y \in S : x <= y

\* min over yj of H*(xi|yj), starting from H(xi).
min_h_xi_yj(xi, Y_comms, n) ==
    SetMin({get_entropy_single(xi, n)} \cup {h_star(xi, Y_comms[j], n) : j \in 1..Len(Y_comms)})

get_conditional_entropy_optimized(X_comms, Y_comms, n) ==
    ISum([i \in 1..Len(X_comms) |-> min_h_xi_yj(X_comms[i], Y_comms, n)], 1..Len(X_comms))

total_entropy(comms, n) ==
    ISum([i \in 1..Len(comms) |-> get_entropy_single(comms[i], n)], 1..Len(comms))

\* NMI_LFK before the clamp.
nmi_lfk_raw(X, Y, n) ==
    LET hx == total_entropy(X, n)
        hy == total_entropy(Y, n)
        hx_y == get_conditional_entropy_optimized(X, Y, n)
        hy_x == get_conditional_entropy_optimized(Y, X, n)
    IN  IF hx > 0 /\ hy > 0
        THEN NmiScale - ((hx_y * NmiScale) \div hx + (hy_x * NmiScale) \div hy) \div 2
        ELSE IF hx = 0 /\ hy = 0 THEN NmiScale ELSE 0

\* 2 * I(X:Y)
twice_mutual_info(X, Y, n) ==
    (total_entropy(X, n) - get_conditional_entropy_optimized(X, Y, n))
    + (total_entropy(Y, n) - get_conditional_entropy_optimized(Y, X, n))

\* NMI_max before the clamp.
nmi_max_raw(X, Y, n) ==
    LET max_entropy == Max2(total_entropy(X, n), total_entropy(Y, n))
    IN  IF max_entropy > 0
        THEN (twice_mutual_info(X, Y, n) * NmiScale) \div (2 * max_entropy)
        ELSE IF twice_mutual_info(X, Y, n) = 0 THEN NmiScale ELSE 0

\* nmi_rand of one random partition.
nmi_rand(X, random_comms, n) ==
    LET max_ent == Max2(total_entropy(X, n), total_entropy(random_comms, n))
    IN  IF max_ent > 0
        THEN (twice_mutual_info(X, random_comms, n) * NmiScale) \div (2 * max_ent)
        ELSE 0

\* for _ in range(10)
RandomPartitions == 10

\* What random.sample can draw for the communities of the ground truth: for
\* each one a vertex set of its size (at most the number of nodes).
random_comms_choices(gt, nodes) ==
    {rc \in [1..Len(gt) -> SUBSET nodes] :
        \A i \in 1..Len(gt) :
            Cardinality(rc[i]) = Min2(Cardinality(gt[i]), Cardinality(nodes))}

NonEmptyCovers(S, k) == UNION {[1..len -> (SUBSET S) \ {{}}] : len \in 0..k}

\* calculate_onmi_metrics(communities, ground_truth) is about to be called.
InitNmi ==
    /\ graph \in {MakeGraph(1..n, {}) : n \in 0..NmiNodes}
    /\ alpha = 8
    /\ tau = DefaultTau
    /\ communities \in NonEmptyCovers(graph.V, NmiCover)
    /\ pc = "onmi"
    /\ Idle

run_vars == <<graph, alpha, tau, communities, NL, iteration, candidate_seeds, seed_idx,
              processed_seeds, community, iterations, merge_count, metrics, scores,
              float_vars>>

\* The call with no node or an empty cover: the three results are 0.
OnmiEmpty ==
    /\ pc = "onmi"
    /\ \E gt \in NonEmptyCovers(graph.V, NmiCover) :
          /\ number_of_nodes = 0 \/ communities = <<>> \/ gt = <<>>
          /\ ground_truth' = gt
    /\ nmi' = NoNmi
    /\ pc' = "onmi_done"
    /\ UNCHANGED <<run_vars, trial, random_sum>>

\* The call up to the loop over the random partitions.
OnmiStart ==
    /\ pc = "onmi"
    /\ \E gt \in NonEmptyCovers(graph.V, NmiCover) :
          /\ ~(number_of_nodes = 0 \/ communities = <<>> \/ gt = <<>>)
          /\ ground_truth' = gt
    /\ trial' = 0
    /\ random_sum' = 0
    /\ pc' = "onmi_random"
    /\ UNCHANGED <<run_vars, nmi>>

\* One random partition: its NMI_max is added to random_nmis.
OnmiRandom ==
    /\ pc = "onmi_random"
    /\ trial < RandomPartitions
    /\ \E rc \in random_comms_choices(ground_truth, graph.V) :
          random_sum' = random_sum + nmi_rand(communities, rc, number_of_nodes)
    /\ trial' = trial + 1
    /\ UNCHANGED <<run_vars, ground_truth, pc, nmi>>

\* The results: NMI_LFK and NMI_max clamped at 0, rNMI as it is.
OnmiReturn ==
    /\ pc = "onmi_random"
    /\ trial = RandomPartitions
    /\ nmi' = [nmi_lfk |-> Max2(0, nmi_lfk_raw(communities, ground_truth, number_of_nodes)),
               nmi_max |-> Max2(0, nmi_max_raw(communities, ground_truth, number_of_nodes)),
               rnmi |-> nmi_max_raw(communities, ground_truth, number_of_nodes)
                          - random_sum \div RandomPartitions]
    /\ pc' = "onmi_done"
    /\ UNCHANGED <<run_vars, ground_truth, trial, random_sum>>

NextNmi ==
    \/ OnmiEmpty
    \/ OnmiStart
    \/ OnmiRandom
    \/ OnmiReturn

SpecNmi == InitNmi /\ [][NextNmi]_vars

(***************************************************************************)
(* Two runs on the same input, each on a fresh object, with the floats the *)
(* modularities are computed in.  The sets of a run iterate in an order    *)
(* the process fixes (the hash of a string id differs from process to      *)
(* process); the caller may pass any seed.                                 *)
(***************************************************************************)
\* The sequences holding every element of S once.
IterationOrders(S) ==
    {p \in [1..Cardinality(S) -> S] : \A i, j \in 1..Cardinality(S) : p[i] = p[j] => i = j}

SeedInputs == {DefaultSeed, 7}

TwiceGraphs == UNION {{MakeGraph(1..n, e) : e \in SUBSET Pairs(1..n)} : n \in 0..TwiceNodes}

InitTwice ==
    /\ graph \in TwiceGraphs
    /\ alpha = 8
    /\ tau = DefaultTau
    /\ communities = <<>>
    /\ pc = "new"
    /\ Idle

\* The three modularities, exact and as the floats the loops accumulate in
\* the iteration order of this process; run returns.
MetricsFloat ==
    /\ pc = "metrics"
    /\ metrics' = [shen |-> calculate_shen_modularity(communities),
                   lazar |-> calculate_lazar_modularity(communities),
                   nicosia |-> calculate_nicosia_modularity(communities)]
    /\ \E order \in IterationOrders(graph.V) :
           /\ hash_order' = order
           /\ float_metrics' = [shen |-> shen_float(communities, order),
                                lazar |-> lazar_float(communities, order),
                                nicosia |-> nicosia_float(communities, order)]
    /\ pc' = "returned"
    /\ UNCHANGED <<graph, alpha, tau, communities, NL, iteration, candidate_seeds,
                   seed_idx, processed_seeds, community, iterations, merge_count,
                   scores, nmi_vars, seed_value, first_run>>

\* The result of the first run is kept and a fresh object is made for the
\* same graph, alpha and threshold; its run will be given any seed.
SecondRun ==
    /\ pc = "returned"
    /\ first_run = <<>>
    /\ first_run' = <<[communities |-> communities, metrics |-> float_metrics]>>
    /\ seed_value' \in SeedInputs
    /\ communities' = <<>>
    /\ pc' = "new"
    /\ NL' = {}
    /\ iteration' = 0
    /\ candidate_seeds' = <<>>
    /\ seed_idx' = 0
    /\ processed_seeds' = {}
    /\ community' = {}
    /\ iterations' = 0
    /\ merge_count' = 0
    /\ metrics' = NoMetrics
    /\ hash_order' = <<>>
    /\ float_metrics' = NoFloatMetrics
    /\ UNCHANGED <<graph, alpha, tau, scores, nmi_vars>>

NextTwice ==
    \/ RunStart
    \/ SeedStep
    \/ SeedSort
    \/ SkipDuplicate
    \/ ExpandStart
    \/ ExpandAdmit
    \/ ExpandReturn
    \/ ExpansionDone
    \/ MergePass
    \/ MetricsFloat
    \/ SecondRun

SpecTwice == InitTwice /\ [][NextTwice]_vars

(***************************************************************************)
(* The seeding phase of run, up to the sorted list of candidate seeds.     *)
(***************************************************************************)
InitSeeding ==
    /\ graph \in GraphInputs \cup {SeedCapGraph}
    /\ alpha = 8
    /\ tau = DefaultTau
    /\ communities = <<>>
    /\ pc = "new"
    /\ Idle

NextSeeding ==
    \/ RunStart
    \/ SeedStep
    \/ SeedSort

SpecSeeding == InitSeeding /\ [][NextSeeding]_vars

(***************************************************************************)
(* merge_communities called on a given list, with every threshold.         *)
(***************************************************************************)
InitMerge ==
    /\ graph = MakeGraph(1..MergeNodes, {})
    /\ alpha = 8
    /\ tau \in TauInputs
    /\ communities \in Covers(graph.V, MergeLength)
    /\ pc = "merge"
    /\ Idle

NextMerge ==
    \/ MergePass
    \/ Metrics

SpecMerge == InitMerge /\ [][NextMerge]_vars

(***************************************************************************)
(* expand_seed called on the rough seed of a centre, as run calls it.      *)
(***************************************************************************)
\* On the two large graphs alpha is 1.0, the value for which expand_seed
\* takes the exception branch and the branch after the tenth admission.
InitExpand ==
    /\ \/ graph \in ExpandGraphs /\ alpha \in AlphaInputs
       \/ graph \in {ExceptionGraph, LateGraph} /\ alpha = 10
    /\ \E center_node \in graph.V :
           \E rough_seed \in {create_rough_seed(center_node)} :
               /\ candidate_seeds = <<[seed |-> rough_seed,
                                       score |-> calculate_seed_score(rough_seed),
                                       center |-> center_node]>>
               /\ community = rough_seed
               /\ processed_seeds = {rough_seed}
    /\ tau = DefaultTau
    /\ communities = <<>>
    /\ pc = "expand"
    /\ NL = {}
    /\ iteration = 0
    /\ seed_idx = 1
    /\ iterations = 0
    /\ merge_count = 0
    /\ metrics = NoMetrics
    /\ scores = <<>>
    /\ ground_truth = <<>>
    /\ trial = 0
    /\ random_sum = 0
    /\ nmi = NoNmi
    /\ seed_value = DefaultSeed
    /\ hash_order = <<>>
    /\ float_metrics = NoFloatMetrics
    /\ first_run = <<>>

\* expand_seed returns the community to its caller.
ExpandSeedReturn ==
    /\ pc = "expand"
    /\ ~expand_continues(community, iterations)
    /\ pc' = "expanded"
    /\ UNCHANGED <<graph, alpha, tau, communities, NL, iteration, candidate_seeds,
                   seed_idx, processed_seeds, community, iterations, merge_count,
                   metrics, scores, nmi_vars, float_vars>>

NextExpand ==
    \/ ExpandAdmit
    \/ ExpandSeedReturn

SpecExpand == InitExpand /\ [][NextExpand]_vars

(***************************************************************************)
(* Properties.                                                             *)
(***************************************************************************)
\* run has returned (the caller may have computed its scores already).
Returned == pc \in {"returned", "done"}

CommunitySet == {communities[i] : i \in 1..Len(communities)}

\* |A & B| / |A | B| as the specification defines it.
JaccardOf(A, B) ==
    IF A \cup B = {} THEN FZero ELSE Frac(Cardinality(A \cap B), Cardinality(A \cup B))

\* C1: every community of the list run builds and returns is a subset of V
\* with at least 3 vertices, after expansion and still after merge.
C1_CommunitiesValid ==
    \A i \in 1..Len(communities) :
        communities[i] \subseteq graph.V /\ Cardinality(communities[i]) >= 3

\* A run that saved several communities, merged some and returned at least two.
C1_Witness == pc = "done" /\ merge_count > 0 /\ Len(communities) >= 2

C4_K4ShenHalf == (graph = K4 /\ Returned) => metrics.shen = <<1, 2>>

\* C4, amended: on K4 the Shen EQ returned by run for the single community V
\* is 0.
C4_K4ShenZero == (graph = K4 /\ Returned) => metrics.shen = FZero

\* The K4 run has returned its single community.
C4_Witness == graph = K4 /\ pc = "done" /\ communities = <<1..4>>

\* C5: NMI identity: for a cover X with a community C, 0 < |C| < |V|,
\* calculate_onmi_metrics(X, X) returns nmi_lfk = 1, nmi_max = 1 and rnmi > 0.
C5_NmiIdentity ==
    (/\ pc = "onmi_done"
     /\ ground_truth = communities
     /\ \E i \in 1..Len(communities) :
           /\ Cardinality(communities[i]) > 0
           /\ Cardinality(communities[i]) < number_of_nodes) =>
        nmi.nmi_lfk = NmiScale /\ nmi.nmi_max = NmiScale /\ nmi.rnmi > 0

\* C6: the nmi_lfk and nmi_max returned by calculate_onmi_metrics lie in [0, 1].
C6_NmiRange ==
    pc = "onmi_done" =>
        /\ nmi.nmi_lfk >= 0 /\ nmi.nmi_lfk <= NmiScale
        /\ nmi.nmi_max >= 0 /\ nmi.nmi_max <= NmiScale

\* density(C) * (1/|C|) * sum over u in C of (k_in(u,C) - k_out(u,C)) / (d_u * O_u)
LazarTerm(C) ==
    LET pairs == (Cardinality(C) * (Cardinality(C) - 1)) \div 2
        part == [u \in C |->
                   IF degree(u) = 0 THEN FZero
                   ELSE Frac(Cardinality(neighbors(u) \cap C) - Cardinality(neighbors(u) \ C),
                             degree(u) * membership_count(u, communities))]
    IN  FMul(Frac(internal_edges(C), pairs), FDivInt(FSum(part, C), Cardinality(C)))

\* The communities of size >= 2 and the sum of their terms.
LazarSummed == {i \in 1..Len(communities) : Cardinality(communities[i]) >= 2}

LazarSum == FSum([i \in LazarSummed |-> LazarTerm(communities[i])], LazarSummed)

\* C7 as stated: Lazar's modularity is the sum of the per-community terms
\* divided by the number of communities of size >= 2.
C7_LazarSkipsInDenominator ==
    Returned =>
        metrics.lazar = IF LazarSummed = {} THEN FZero
                        ELSE FDivInt(LazarSum, Cardinality(LazarSummed))

\* C7, amended: a community of size < 2 contributes 0 to the sum but is
\* counted in the denominator: the result is the sum of the per-community
\* terms divided by the number of all communities.
C7_LazarDividesByAll ==
    Returned =>
        metrics.lazar = IF Len(communities) = 0 THEN FZero
                        ELSE FDivInt(LazarSum, Len(communities))

\* The metrics of a cover with a community of size < 2 and a non-zero sum.
C7_Witness ==
    /\ pc = "done"
    /\ \E i \in 1..Len(communities) : Cardinality(communities[i]) < 2
    /\ metrics.lazar # FZero

\* C8: on two disjoint triangles with tau = 0.33 run returns exactly the two
\* triangles, and Shen EQ and Nicosia Q_ov of that cover are both 1/2.
C8_TwoTriangles ==
    (graph = TwoTriangles /\ tau = <<33, 100>> /\ Returned) =>
        /\ Len(communities) = 2
        /\ CommunitySet = {{1, 2, 3}, {4, 5, 6}}
        /\ metrics.shen = <<1, 2>>
        /\ metrics.nicosia = <<1, 2>>

\* The two-triangles run with tau = 0.33 has returned two communities.
C8_Witness ==
    graph = TwoTriangles /\ tau = <<33, 100>> /\ pc = "done" /\ Len(communities) = 2

\* C9: on the bowtie, for every tau <= 0.5 run returns exactly one community,
\* the five vertices.
C9_BowtieLowTau ==
    (graph = Bowtie /\ FGeq(<<1, 2>>, tau) /\ Returned) => communities = <<1..5>>

\* The bowtie run with tau = 0.5 has returned after merging.
C9_Witness == graph = Bowtie /\ tau = <<1, 2>> /\ pc = "done" /\ merge_count > 0

\* No edge leaves the community.
NoCutEdges(C) == \A u \in C : neighbors(u) \subseteq C

\* C10: on K4 run returns the single community V; psi and conductance are 0
\* for it, for every returned community without cut edges, and for every
\* vertex set without cut edges the two functions are called on.
C10_NoCutEdgesZero ==
    pc = "done" =>
        /\ graph = K4 => communities = <<1..4>>
        /\ \A i \in 1..Len(communities) :
              NoCutEdges(communities[i]) =>
                  scores[i].psi = FZero /\ scores[i].conductance = FZero
        /\ \A C \in SUBSET graph.V :
              NoCutEdges(C) =>
                  /\ calculate_psi_normalized_node_cut(C) = FZero
                  /\ calculate_conductance(C) = FZero

\* The scores of the K4 run's single community, which has internal edges.
C10_Witness ==
    graph = K4 /\ pc = "done" /\ Len(scores) = 1 /\ internal_edges(communities[1]) = 6

\* C11: merge_communities started from the list [{1,2,3,4}, {3,4,5,6}], whose
\* improved Jaccard coefficient is 2/6, returns the single community
\* {1,...,6} when tau = 0.33 and the two communities, unchanged, when
\* tau = 0.34.
C11_S6MergeThreshold ==
    (graph = S6Graph /\ pc \in {"metrics", "returned", "done"}) =>
        /\ tau = <<33, 100>> => communities = <<1..6>>
        /\ tau = <<34, 100>> => communities = S6Cover

C11_Witness ==
    /\ graph = S6Graph
    /\ pc = "metrics"
    /\ tau = <<33, 100>>
    /\ communities = <<1..6>>
    /\ merge_count = 1
    /\ JaccardOf({1, 2, 3, 4}, {3, 4, 5, 6}) = <<1, 3>>

\* C12: an isolated vertex (degree 0) is in no community of the list run
\* builds and returns: it is in no other centre's rough seed, it never enters
\* a shell, the community grown from its own seed stays the singleton, and
\* that singleton is not saved.
C12_IsolatedVertexExcluded ==
    \A v \in graph.V : degree(v) = 0 =>
        /\ \A i \in 1..Len(communities) : v \notin communities[i]
        /\ \A i \in 1..Len(candidate_seeds) :
               v \in candidate_seeds[i].seed =>
                   /\ candidate_seeds[i].seed = {v}
                   /\ candidate_seeds[i].center = v
        /\ pc = "expand" =>
               /\ v \notin shell_nodes(community)
               /\ v \in community => community = {v}

C12_Witness ==
    /\ pc = "done"
    /\ Len(communities) >= 1
    /\ \E v \in graph.V :
           /\ degree(v) = 0
           /\ {v} \in processed_seeds
           /\ \A i \in 1..Len(communities) : v \notin communities[i]

\* The three modularity functions all return 0 on the list comms.
AllModularitiesZero(comms) ==
    /\ calculate_shen_modularity(comms) = FZero
    /\ calculate_lazar_modularity(comms) = FZero
    /\ calculate_nicosia_modularity(comms) = FZero

\* C13: on a graph without vertices or without edges run returns the empty
\* community list and the three modularities 0; and each modularity function
\* returns 0 on the empty list, for every graph, and on every list of
\* communities when the graph has no edge.
C13_DegenerateInputsGiveZero ==
    /\ (Returned /\ (graph.V = {} \/ number_of_edges = 0)) =>
           /\ communities = <<>>
           /\ metrics = NoMetrics
    /\ pc = "new" =>
           /\ AllModularitiesZero(<<>>)
           /\ number_of_edges = 0 =>
                  \A comms \in Covers(graph.V, MaxCover) : AllModularitiesZero(comms)

C13_Witness ==
    /\ pc = "done"
    /\ Cardinality(graph.V) >= 3
    /\ number_of_edges = 0
    /\ Len(candidate_seeds) = Cardinality(graph.V)
    /\ communities = <<>>
    /\ metrics = NoMetrics

\* Sum of the weights of the edges of a set.
WeightOf(edges) == ISum([e \in edges |-> graph.weight[e]], edges)

\* Edges with both ends, resp. exactly one end, in C.
InternalEdges(C) == {e \in graph.E : e \subseteq C}

CutEdges(C) == {e \in graph.E : e \cap C # {} /\ ~(e \subseteq C)}

\* C14: for every graph with positive edge weights and every community
\* C of vertices, psi(C) >= 0 and 0 <= conductance(C) <= 1; both are 0 for
\* the empty community, psi is 0 when the total internal degree is 0 and
\* conductance is 0 when k_in + k_out = 0.
C14_PsiConductanceRange ==
    pc = "done" =>
        \A i \in 1..Len(communities) :
            LET C == communities[i]
                psi == scores[i].psi
                conductance == scores[i].conductance
            IN  /\ psi[2] > 0 /\ psi[1] >= 0
                /\ conductance[2] > 0
                /\ conductance[1] >= 0
                /\ conductance[1] <= conductance[2]
                /\ C = {} => (psi = FZero /\ conductance = FZero)
                /\ 2 * WeightOf(InternalEdges(C)) = 0 => psi = FZero
                /\ WeightOf(InternalEdges(C)) + WeightOf(CutEdges(C)) = 0 =>
                       conductance = FZero

\* A community of a weighted graph with internal and cut edges, whose psi and
\* conductance are strictly inside their ranges.
C14_Witness ==
    /\ pc = "done"
    /\ \E e \in graph.E : graph.weight[e] > 1
    /\ \E i \in 1..Len(communities) :
           /\ InternalEdges(communities[i]) # {}
           /\ CutEdges(communities[i]) # {}
           /\ scores[i].psi[1] > 0
           /\ scores[i].conductance[1] > 0
           /\ scores[i].conductance[1] < scores[i].conductance[2]

\* C15: the ordered community list and the three modularities run returns
\* are a function of (G, alpha, tau): a second run on a fresh object for the
\* same graph, alpha and threshold returns what the first returned, whatever
\* the order in which the sets iterate and whatever the seed.
C15_RunsAgree ==
    (pc = "returned" /\ first_run # <<>>) =>
        /\ communities = first_run[1].communities
        /\ float_metrics = first_run[1].metrics

\* C15, the part about the list alone: the second run returns the ordered
\* community list of the first, and exact arithmetic gives both runs the
\* same modularities.
C15_CommunityListsAgree ==
    (pc = "returned" /\ first_run # <<>>) =>
        /\ communities = first_run[1].communities
        /\ metrics = [shen |-> calculate_shen_modularity(first_run[1].communities),
                      lazar |-> calculate_lazar_modularity(first_run[1].communities),
                      nicosia |-> calculate_nicosia_modularity(first_run[1].communities)]

\* A pass of merge_communities that is followed by another pass has merged
\* and left a shorter list.
MergeShortens ==
    (pc = "merge" /\ pc' = "merge") => Len(communities') < Len(communities)

\* The operations of the next step that are not defined on every argument
\* get arguments they are defined on: max() a non-empty candidate set, the
\* divisions a divisor that is not 0.
OperationsDefined ==
    /\ (pc = "seeding" /\ NL # {} /\ iteration < MaxIterations) =>
           best_center(NL) \in NL
    /\ pc = "expand" =>
           /\ community # {}
           /\ \A c \in shell_nodes(community) :
                  /\ degree(c) > 0
                  /\ \A vj \in neighbors(c) \cap community : two_hop(vj) # {}
           /\ (shell_nodes(community) # {}
                   /\ Cardinality(community) < max_community_size) =>
                  /\ candidate_scores(community) # {}
                  /\ best_candidate(community) \in candidate_scores(community)
    /\ pc = "merge" =>
           \A i, j \in 1..Len(communities) :
               communities[i] \cap communities[j] # {} =>
                   Cardinality(communities[i] \cup communities[j]) > 0
    /\ pc = "metrics" =>
           /\ number_of_edges > 0 => \A v \in graph.V : membership_count(v, communities) > 0
           /\ \A i \in 1..Len(communities) :
                  Cardinality(communities[i]) >= 2 => lazar_divisor(communities) > 0
    /\ Returned =>
           metrics.shen[2] > 0 /\ metrics.lazar[2] > 0 /\ metrics.nicosia[2] > 0

\* The position of run in its loops, a triple of naturals ordered
\* lexicographically: the phase, then what the outer loop of the phase has
\* left (vertices in NL, seeds not yet visited, entries of the list), then
\* what expand_seed's while loop has left (vertices outside the community).
PhaseRank ==
    CASE pc = "new" -> 6
      [] pc = "seeding" -> 5
      [] pc \in {"expansion", "expand"} -> 4
      [] pc = "merge" -> 3
      [] pc = "metrics" -> 2
      [] pc = "returned" -> 1
      [] OTHER -> 0

RunVariant ==
    CASE pc = "seeding" -> <<PhaseRank, Cardinality(NL), 0>>
      [] pc = "expansion" ->
             <<PhaseRank, Len(candidate_seeds) + 1 - seed_idx, number_of_nodes + 1>>
      [] pc = "expand" ->
             <<PhaseRank, Len(candidate_seeds) + 1 - seed_idx,
               number_of_nodes - Cardinality(community)>>
      [] pc = "merge" -> <<PhaseRank, Len(communities), 0>>
      [] OTHER -> <<PhaseRank, 0, 0>>

LexLess(a, b) ==
    /\ \A k \in 1..3 : a[k] >= 0 /\ b[k] >= 0
    /\ \/ a[1] < b[1]
       \/ a[1] = b[1] /\ a[2] < b[2]
       \/ a[1] = b[1] /\ a[2] = b[2] /\ a[3] < b[3]

\* Every step of run moves it strictly down in the order of RunVariant.
VariantDecreases == LexLess(RunVariant', RunVariant)

\* run is never stuck before it returns: at every position of the code the
\* condition of one of the branches that leave it holds.
RunProgresses ==
    /\ pc \in {"new", "seeding", "expansion", "expand", "merge", "metrics",
               "returned", "done"}
    /\ pc = "seeding" =>
           \/ NL # {} /\ iteration < MaxIterations
           \/ ~(NL # {} /\ iteration < MaxIterations)
    /\ pc = "expansion" =>
           /\ seed_idx \in 1..(Len(candidate_seeds) + 1)
           /\ seed_idx <= Len(candidate_seeds) =>
                  candidate_seeds[seed_idx].seed \subseteq graph.V
    /\ pc = "expand" =>
           /\ seed_idx \in 1..Len(candidate_seeds)
           /\ expand_continues(community, iterations) \in BOOLEAN
           /\ iterations <= number_of_nodes
    /\ pc = "merge" => merge_pass(communities).merged \in BOOLEAN

\* C16: run terminates and reaches no error. Termination of sequential
\* code is stated as a safety property: every step of the seeding loop, of
\* every expand_seed loop and of the merge loop strictly decreases
\* RunVariant, whose order is well-founded; every merge pass that is
\* followed by another has shortened the list; run is never stuck before it
\* returns; and no step takes the maximum of an empty set, divides by 0 or
\* indexes outside a list.
C16_RunTerminates ==
    /\ [][VariantDecreases /\ MergeShortens]_vars
    /\ []OperationsDefined
    /\ []RunProgresses

C16_Witness ==
    /\ pc = "done"
    /\ graph = Path6
    /\ Len(candidate_seeds) = 6
    /\ \E i \in 1..6 : candidate_seeds[i].seed = {candidate_seeds[i].center}

\* The vertices expand_seed has admitted so far: the community without the
\* seed it was called with.
Admitted == community \ candidate_seeds[seed_idx].seed

\* An iteration of expand_seed that selects a best candidate: there is a
\* shell and the community is below the cap.
SelectsCandidate ==
    /\ pc = "expand"
    /\ shell_nodes(community) # {}
    /\ Cardinality(community) < max_community_size

\* The admission rule in the words of the claim, for the best candidate.
MeetsAdmissionRule ==
    LET best == best_candidate(community).node
        gain == fitness_gain(best, community)
    IN  \/ gain >= MinFitnessGainThreshold
        \/ /\ gain < 0
           /\ Cardinality(Admitted) < ExceptionIterations
           /\ \/ omega(best, community) > ExceptionThreshold
              \/ influence_function(best, community) > ExceptionThreshold

AdmissionStep ==
    /\ pc = "expand" =>
           /\ community \subseteq community'
           /\ Cardinality(community' \ community) <= 1
    /\ SelectsCandidate =>
           IF MeetsAdmissionRule
           THEN /\ community' = community \cup {best_candidate(community).node}
                /\ pc' = "expand"
           ELSE /\ community' = community
                /\ pc' # "expand"

\* C17: in an iteration of expand_seed at most one vertex is added, the best
\* candidate, and it is added exactly when its fitness gain is at least
\* 0.0001, or its gain is negative, fewer than 10 vertices have been
\* admitted and its omega or its influence exceeds 0.8; otherwise the
\* expansion ends with the community unchanged.
C17_AdmissionRule == [][AdmissionStep]_vars

\* expand_seed has ended after 10 admissions on a candidate of negative gain
\* whose influence exceeds 0.8.
C17_Witness ==
    /\ pc = "expanded"
    /\ Cardinality(Admitted) = ExceptionIterations
    /\ shell_nodes(community) # {}
    /\ Cardinality(community) < max_community_size
    /\ best_candidate(community).fitness < 0
    /\ best_candidate(community).influence > ExceptionThreshold

\* A vertex of negative gain was admitted for its influence.
C17_ExceptionAdmitted ==
    /\ pc = "expanded"
    /\ \E v \in Admitted :
           /\ fitness_function(community) < fitness_function(community \ {v})
           /\ influence_function(v, community \ {v}) > ExceptionThreshold

\* expand_seed has ended on a candidate whose gain is neither negative nor
\* at least 0.0001.
C17_SmallGainRefused ==
    /\ pc = "expanded"
    /\ shell_nodes(community) # {}
    /\ Cardinality(community) < max_community_size
    /\ best_candidate(community).fitness >= 0
    /\ best_candidate(community).fitness < MinFitnessGainThreshold

\* expand_seed has ended before 10 admissions on a candidate of negative
\* gain whose omega and influence do not exceed 0.8.
C17_NegativeGainRefused ==
    /\ pc = "expanded"
    /\ Cardinality(Admitted) < ExceptionIterations
    /\ shell_nodes(community) # {}
    /\ Cardinality(community) < max_community_size
    /\ best_candidate(community).fitness < 0

\* The admission criteria of the docstring for the scores of one candidate.
MeetsCriteria(sc) ==
    \/ sc.fitness >= MinFitnessGainThreshold
    \/ /\ sc.fitness < 0
       /\ Cardinality(Admitted) < ExceptionIterations
       /\ (sc.omega > ExceptionThreshold \/ sc.influence > ExceptionThreshold)

\* C18: the OR logic as the docstring of expand_seed states it: whenever at
\* least one of the argmax vertices (of the fitness gain, of omega, of the
\* influence) meets the admission criteria, the iteration adds a vertex; the
\* expansion stops only if none of them does.
C18_OrLogic ==
    [][(SelectsCandidate
           /\ \E sc \in argmax_nodes(candidate_scores(community)) : MeetsCriteria(sc))
        => Cardinality(community') = Cardinality(community) + 1]_vars

\* C19: no community returned by expand_seed has more than
\* cap = max(3, floor(0.5 * |V|)) vertices.
C19_SizeCap ==
    pc = "expanded" => Cardinality(community) <= max_community_size

\* C19, what the cap does: no vertex is added to a community that has
\* reached the cap, so a returned community is above the cap only when it
\* is the seed expand_seed was called with.
C19_CapStopsGrowth ==
    pc = "expanded" =>
        \/ Cardinality(community) <= max_community_size
        \/ community = candidate_seeds[seed_idx].seed

\* The community of the start-of-pass list that absorbs community j in one
\* pass, 0 when j is not absorbed: the first i < j that is not absorbed
\* itself and whose Jaccard coefficient with j reaches the threshold.
Absorber(comms) ==
    LET a[j \in 1..Len(comms)] ==
            LET into == {i \in 1..(j - 1) :
                            a[i] = 0 /\ FGeq(JaccardOf(comms[i], comms[j]), tau)}
            IN  IF into = {} THEN 0 ELSE CHOOSE i \in into : \A k \in into : i <= k
    IN  a

\* One entry per community that is not absorbed, in ascending index order:
\* the union of the community with everything it absorbed.
ListAfterPass(comms) ==
    LET a == Absorber(comms)
        entry == [i \in 1..Len(comms) |->
                     [index |-> i,
                      set |-> comms[i] \cup UNION {comms[j] : j \in {k \in 1..Len(comms) : a[k] = i}}]]
        kept == SelectSeq(entry, LAMBDA r : a[r.index] = 0)
    IN  [k \in 1..Len(kept) |-> kept[k].set]

\* C20: one pass of merge_communities absorbs community j into i (i < j)
\* exactly when neither was absorbed earlier in the pass and the Jaccard
\* coefficient of the two communities as they stood at the start of the
\* pass reaches tau; the new list has one entry per community not absorbed,
\* in ascending order, the union of the community with what it absorbed.
C20_MergePassSemantics ==
    [][pc = "merge" =>
           /\ communities' = ListAfterPass(communities)
           /\ merge_count' = merge_count
                   + Cardinality({j \in 1..Len(communities) : Absorber(communities)[j] # 0})]_vars

\* A pass has absorbed one community and has left, unmerged, a community
\* that reaches the threshold with the union but did not with its absorber.
C20_Witness ==
    /\ pc = "merge"
    /\ tau = <<1, 2>>
    /\ merge_count = 1
    /\ communities = <<{1, 2}, {2}>>

\* The place of a vertex in V ordered by (degree descending, id ascending).
DegreeRank(v) ==
    1 + Cardinality({u \in graph.V :
                        degree(u) > degree(v) \/ (degree(u) = degree(v) /\ u < v)})

CentresRecorded == {candidate_seeds[k].center : k \in 1..Len(candidate_seeds)}

C22_RoughSeed ==
    \A k \in 1..Len(candidate_seeds) :
        LET c == candidate_seeds[k].center
            rough_seed == candidate_seeds[k].seed
        IN  /\ rough_seed = {c} \cup {x \in graph.adj[c] :
                                          Cardinality(graph.adj[c] \cap graph.adj[x]) >= 1}
            /\ c \in rough_seed
            /\ rough_seed \subseteq {c} \cup graph.adj[c]
            /\ (\A x, y \in graph.adj[c] : Edge(x, y) \notin graph.E) => rough_seed = {c}

\* The rough seed of vertex 1 of OrLogicGraph: its triangle neighbours 2 and
\* 3 are taken, its leaves 5 and 6 are not.
C22_Witness ==
    /\ graph = OrLogicGraph
    /\ Len(candidate_seeds) = 1
    /\ candidate_seeds[1].center = 1
    /\ candidate_seeds[1].seed = {1, 2, 3}
    /\ graph.adj[1] = {2, 3, 5, 6}

\* Sum of the degrees of a vertex set + its size + its internal edges, from
\* the edge set alone.
ScoreOf(S) ==
    Cardinality({p \in S \X graph.V : Edge(p[1], p[2]) \in graph.E /\ p[1] # p[2]})
        + Cardinality(S)
        + Cardinality({e \in graph.E : e \subseteq S})

\* The sorted list of seeds: every score is the score of its seed, the scores
\* do not increase, and seeds of equal score stand in the order in which
\* their centres were chosen (C21: the order of DegreeRank).
SeedsInExpansionOrder ==
    pc \in {"expansion", "expand"} =>
        /\ \A i \in 1..Len(candidate_seeds) :
               candidate_seeds[i].score = ScoreOf(candidate_seeds[i].seed)
        /\ \A i, j \in 1..Len(candidate_seeds) :
               i < j =>
                   \/ candidate_seeds[i].score > candidate_seeds[j].score
                   \/ /\ candidate_seeds[i].score = candidate_seeds[j].score
                      /\ DegreeRank(candidate_seeds[i].center)
                             < DegreeRank(candidate_seeds[j].center)

\* The for loop visits the sorted seeds by ascending index; expand_seed
\* starts from the seed at the index; a finished community is appended at
\* the end of the list, or dropped, and nothing else changes the list or
\* the seeds before merge.
ExpansionOrderStep ==
    /\ pc \in {"expansion", "expand"} =>
           /\ candidate_seeds' = candidate_seeds
           /\ seed_idx' \in {seed_idx, seed_idx + 1}
    /\ (pc = "expansion" /\ pc' = "expand") =>
           /\ seed_idx' = seed_idx
           /\ community' = candidate_seeds[seed_idx].seed
           /\ communities' = communities
    /\ (pc = "expand" /\ pc' = "expand") =>
           /\ seed_idx' = seed_idx
           /\ communities' = communities
    /\ (pc = "expand" /\ pc' = "expansion") =>
           /\ seed_idx' = seed_idx + 1
           /\ candidate_seeds[seed_idx].seed \subseteq community
           /\ communities' = IF Cardinality(community) >= MinCommunitySize
                              THEN communities \o <<community>>
                              ELSE communities
    /\ (pc = "expansion" /\ pc' = "expansion") =>
           /\ seed_idx' = seed_idx + 1
           /\ communities' = communities
    /\ (pc = "expansion" /\ pc' = "merge") =>
           /\ seed_idx = Len(candidate_seeds) + 1
           /\ communities' = communities

\* C23: the seeds are expanded in non-increasing order of score = sum of
\* degrees + size + internal edges, seeds of equal score in the order their
\* centres were chosen, and before merge the communities list holds the
\* saved communities in that order.
C23_ExpansionOrder ==
    /\ []SeedsInExpansionOrder
    /\ [][ExpansionOrderStep]_vars

\* Before the first merge pass: two communities were saved, from seeds of
\* which some have equal and some have different scores.
C23_Witness ==
    /\ pc = "merge"
    /\ merge_count = 0
    /\ Len(communities) >= 2
    /\ \E i, j \in 1..Len(candidate_seeds) :
           i < j /\ candidate_seeds[i].score > candidate_seeds[j].score
    /\ \E i, j \in 1..Len(candidate_seeds) :
           /\ i < j
           /\ candidate_seeds[i].score = candidate_seeds[j].score
           /\ candidate_seeds[i].seed # candidate_seeds[j].seed


\* C24: the communities list changes only when run appends the community
\* that expand_seed returned and when a pass of merge_communities replaces
\* the list, each new entry built from the sets as they stood at the start
\* of the pass; while expand_seed runs the list and the seed it was given
\* stay as they were; the metric functions leave the list as it was.
C24_CommunitiesFrame ==
    [][/\ communities' # communities =>
              \/ /\ pc = "expand"
                 /\ pc' = "expansion"
                 /\ community' = community
                 /\ communities' = Append(communities, community)
              \/ /\ pc = "merge"
                 /\ communities' = ListAfterPass(communities)
       /\ pc = "expand" =>
              /\ candidate_seeds' = candidate_seeds
              /\ candidate_seeds[seed_idx].seed \subseteq community'
              /\ pc' = "expand" => communities' = communities
       /\ pc \in {"metrics", "call_metrics", "returned"} => communities' = communities]_vars

\* A run is over in which the last expansion admitted a vertex and a merge
\* pass absorbed a community.
C24_Witness ==
    /\ pc = "done"
    /\ merge_count > 0
    /\ iterations > 0
    /\ \E k \in 1..Len(candidate_seeds) : candidate_seeds[k].seed \notin CommunitySet


\* k_in / (k_in + k_out) ** alpha in units of 1/Scale, from the two counts.
FitnessOfCounts(k_in, k_out) ==
    IF alpha = 10 THEN (k_in * Scale) \div (k_in + k_out)
    ELSE IF alpha = 8 THEN k_in * InvPow08[k_in + k_out]
    ELSE k_in * InvPow06[k_in + k_out]

\* C25: while expand_seed runs on the first seed of a run, for every set C
\* of vertices of the graph, fitness_function(C) is
\* k_in / (k_in + k_out) ** alpha with k_in twice the number of edges that
\* have both ends in C and k_out the number of edges that have exactly one
\* end in C, and it is 0 when C has no internal edge.
C25_Fitness ==
    pc = "expand" /\ seed_idx = 1 =>
        \A C \in SUBSET graph.V :
            LET inside == Cardinality(InternalEdges(C))
                cut == Cardinality(CutEdges(C))
            IN  /\ k_in_of(C) = 2 * inside
                /\ k_out_of(C) = cut
                /\ fitness_function(C) =
                       IF inside = 0 THEN 0 ELSE FitnessOfCounts(2 * inside, cut)
                /\ inside > 0 => fitness_function(C) > 0

\* expand_seed has admitted a vertex to a first seed of one vertex, whose
\* fitness is 0, and the community now has both internal and cut edges.
C25_Witness ==
    /\ pc = "expand"
    /\ seed_idx = 1
    /\ iterations > 0
    /\ Cardinality(candidate_seeds[seed_idx].seed) = 1
    /\ fitness_function(candidate_seeds[seed_idx].seed) = 0
    /\ CutEdges(candidate_seeds[seed_idx].seed) # {}
    /\ InternalEdges(community) # {}
    /\ CutEdges(community) # {}
    /\ fitness_function(community) > 0
    /\ alpha # 10


\* max(3, floor(0.5 * |V|)), from the vertex set.
SizeCap == Max2(3, Cardinality(graph.V) \div 2)

\* The seed expand_seed was called with.
InputSeed == candidate_seeds[seed_idx].seed

\* During and after expand_seed: the community holds the seed plus one vertex
\* of the graph per admission, and the admissions fit under the cap.
GrownFromSeed ==
    pc \in {"expand", "expanded"} =>
        /\ InputSeed \subseteq community
        /\ community \subseteq graph.V
        /\ Cardinality(community) = Cardinality(InputSeed) + iterations
        /\ Cardinality(community) <= Max2(Cardinality(InputSeed), SizeCap)
        /\ iterations <= Max2(0, SizeCap - Cardinality(InputSeed))

\* A step of expand_seed that changes the community adds one vertex that
\* has a neighbour in the community, to a community below the cap.
GrowsByShellVertex ==
    pc = "expand" /\ community' # community =>
        /\ Cardinality(community) < SizeCap
        /\ iterations' = iterations + 1
        /\ \E v \in graph.V \ community :
               /\ neighbors(v) \cap community # {}
               /\ community' = community \cup {v}

\* C26: expand_seed only grows its seed, one vertex adjacent to the
\* community at a time and only below cap = max(3, floor(0.5 * |V|)): its
\* result R has seed <= R <= V, |R| <= max(|seed|, cap), and at most
\* max(0, cap - |seed|) vertices are admitted.
C26_GrowthUnderCap == []GrownFromSeed /\ [][GrowsByShellVertex]_vars

\* expand_seed has returned a community that reached the cap by admissions
\* although a vertex outside it is adjacent to it.
C26_Witness ==
    /\ pc = "expanded"
    /\ iterations > 0
    /\ Cardinality(community) = SizeCap
    /\ iterations = SizeCap - Cardinality(InputSeed)
    /\ \E v \in graph.V \ community :
           /\ neighbors(v) \cap community # {}
           /\ add_node(best_candidate(community), iterations)


\* 0.6 in units of 1/Scale.
OmegaBound == 6 * (Scale \div 10)

\* omega is at most 0.6: for every vertex against each single neighbour,
\* as the value returned and as the exact fraction score / degree, and for
\* every vertex against the community being expanded.
OmegaAtMostBound ==
    /\ \A v \in graph.V : \A vj \in neighbors(v) :
           /\ omega(v, {vj}) <= OmegaBound
           /\ 10 * omega_score(v, vj)[1] <= 6 * omega_score(v, vj)[2] * degree(v)
    /\ \A v \in graph.V :
           /\ omega(v, community) <= OmegaBound
           /\ omega(v, community) < ExceptionThreshold
           /\ neighbors(v) \cap community = {} => omega(v, community) = 0

\* An admission of a vertex that lowers the fitness is one of a vertex
\* whose influence exceeds 0.8, made before the tenth admission.
NegativeGainByInfluence ==
    pc = "expand" /\ community' # community
                  /\ fitness_function(community') < fitness_function(community) =>
        \E v \in community' \ community :
            /\ community' = community \cup {v}
            /\ omega(v, community) <= OmegaBound
            /\ influence_function(v, community) > ExceptionThreshold
            /\ iterations < ExceptionIterations

\* C27: on a loop-free simple graph omega(v, C) never exceeds 0.6, which is
\* below the exception threshold 0.8, so a vertex of negative fitness gain is
\* admitted only when its influence exceeds 0.8.
C27_OmegaNeverExceptional == []OmegaAtMostBound /\ [][NegativeGainByInfluence]_vars

\* expand_seed has returned after admitting a vertex that lowered the
\* fitness; its omega was positive and its influence above 0.8.
C27_Witness ==
    /\ pc = "expanded"
    /\ \E v \in community \ InputSeed :
           /\ fitness_function(community) < fitness_function(community \ {v})
           /\ influence_function(v, community \ {v}) > ExceptionThreshold
           /\ omega(v, community \ {v}) > 0
           /\ omega(v, community \ {v}) <= OmegaBound

\* C27, the bound is attained: the two ends of an edge that touches no
\* other edge have omega 0.6 against each other.
C27_BoundAttained ==
    \E u \in graph.V : \E vj \in neighbors(u) :
        /\ degree(u) = 1
        /\ degree(vj) = 1
        /\ omega(u, {vj}) = OmegaBound


\* O_v: the number of communities that hold v, 1 for a vertex in none.
OverlapOf(v) ==
    LET holding == {i \in 1..Len(communities) : v \in communities[i]}
    IN  IF holding = {} THEN 1 ELSE Cardinality(holding)

\* (1 / (O_u * O_v)) * (A_uv - d_u * d_v / (2m)) as an exact fraction.
PairTerm(u, v) ==
    FMul(Frac(1, OverlapOf(u) * OverlapOf(v)),
         FSub(Frac(IF Edge(u, v) \in graph.E THEN 1 ELSE 0, 1),
              Frac(degree(u) * degree(v), 2 * Cardinality(graph.E))))

\* (1/2m) * sum over the communities C and the ordered pairs u, v of C of
\* PairTerm(u, v).
OverlapModularity ==
    LET idx == 1..Len(communities)
        of_vertex(C, u) == FSum([v \in C |-> PairTerm(u, v)], C)
        of_community(C) == FSum([u \in C |-> of_vertex(C, u)], C)
    IN  FDivInt(FSum([i \in idx |-> of_community(communities[i])], idx),
                2 * Cardinality(graph.E))

\* C28: for every graph with an edge and every list of communities,
\* calculate_shen_modularity and calculate_nicosia_modularity return the
\* same exact value, (1/2m) * sum_C sum_{u,v in C} (1/(O_u * O_v)) *
\* (A_uv - d_u * d_v / (2m)), with O_v = 1 for a vertex in no community;
\* both return 0 for a graph without edges.
C28_ShenEqualsNicosia ==
    pc = "returned" =>
        /\ metrics.shen = metrics.nicosia
        /\ metrics.shen = IF graph.E = {} THEN FZero ELSE OverlapModularity

\* The metrics of a cover were computed in which one vertex is in two
\* communities and one in none, and the common value is not 0.
C28_Witness ==
    /\ pc = "returned"
    /\ metrics.shen # FZero
    /\ metrics.nicosia = metrics.shen
    /\ \E v \in graph.V : Cardinality({i \in 1..Len(communities) : v \in communities[i]}) = 2
    /\ \E v \in graph.V : \A i \in 1..Len(communities) : v \notin communities[i]


\* C induces a connected subgraph: it has a vertex, and every split of C in
\* two non-empty parts is crossed by an edge of the graph.
InducesConnected(C) ==
    /\ C # {}
    /\ \A S \in SUBSET C :
           S # {} /\ S # C => \E e \in graph.E : e \cap S # {} /\ e \cap (C \ S) # {}

\* C29: for tau in (0, 1], every rough seed, every community under
\* expansion and every community of the list, during the run and when run
\* has returned, induces a connected subgraph of the graph.
C29_CommunitiesConnected ==
    /\ FGeq(tau, FZero) /\ ~FGeq(FZero, tau) /\ FGeq(<<1, 1>>, tau)
    /\ \A k \in 1..Len(candidate_seeds) : InducesConnected(candidate_seeds[k].seed)
    /\ pc = "expand" => InducesConnected(community)
    /\ \A i \in 1..Len(communities) : InducesConnected(communities[i])

\* run has returned a community that a merge built from two communities,
\* on a graph that is not connected itself.
C29_Witness ==
    /\ pc = "done"
    /\ merge_count > 0
    /\ ~InducesConnected(graph.V)
    /\ \E i \in 1..Len(communities) :
           /\ InducesConnected(communities[i])
           /\ \A k \in 1..Len(candidate_seeds) : candidate_seeds[k].seed # communities[i]


\* The vertices held by the communities of a list.
VerticesOf(comms) == UNION {comms[i] : i \in 1..Len(comms)}

\* The list after holds the vertices of the list before, every community of
\* the list before lies within one of the list after, and the list after is
\* not longer.
Preserves(before, after) ==
    /\ VerticesOf(after) = VerticesOf(before)
    /\ \A i \in 1..Len(before) : \E k \in 1..Len(after) : before[i] \subseteq after[k]
    /\ Len(after) <= Len(before)

\* C30: merge_communities neither loses nor invents a vertex: after every
\* pass, and when the last pass has ended, the union of the communities is
\* the union before, every community of the list before is a subset of a
\* community of the list after, and the list is not longer than before.
C30_MergePreserves ==
    /\ [](pc = "merge" => Preserves(communities, merge_communities(communities)))
    /\ [][pc = "merge" => Preserves(communities, communities')]_vars

\* merge_communities has ended after absorbing two communities, and the one
\* community left holds every vertex.
C30_Witness ==
    /\ pc = "metrics"
    /\ merge_count = 2
    /\ Len(communities) = 1
    /\ communities[1] = graph.V

====
